---------------------------- MODULE Spec2Model ----------------------------
(***************************************************************************)
(* A model of the Skrafl word-graph (DAWG) builder, the DAWG dictionary    *)
(* with its navigators, the word database singletons and the board/move    *)
(* mechanics.                                                              *)
(*                                                                         *)
(* Characters are one-character strings.  A word, an edge prefix and a     *)
(* line of the text file are sequences of characters.  Python dicts are    *)
(* modelled as sequences of key/value records, in insertion order.         *)
(***************************************************************************)
EXTENDS Integers, Sequences, FiniteSets, TLC

VARIABLES
    \* The build / write / load / lookup pipeline
    pc,        \* phase of the pipeline
    dawg,      \* the _Dawg under construction (dawgbuilder.py)
    added,     \* the words handed to add_word so far
    text,      \* the lines written by write_text
    dict,      \* the DawgDictionary that loads the text
    query,     \* the argument of the last lookup
    result,    \* what the last lookup returned
    \* The merge of DawgBuilder._load
    infiles,   \* the input files: their word lists and read positions
    lastkey,   \* the last word that passed the order check
    removal,   \* the removal list, if there is one
    word_filter, \* the words that the word filter turns down
    warnings,  \* the words that were reported as out of order
    \* Threads that share the word database singletons
    threads,   \* each thread: its program counter and its locals
    objs,      \* the DawgDictionary instances created so far
    wordbase,  \* the class attributes of Wordbase
    worddb,    \* the WordDatabase singleton
    \* The game
    gpc,       \* phase of the play loop
    board,     \* the Board
    racks,     \* the two Racks
    bag,       \* the Bag
    scores,    \* the two scores
    player,    \* the player to move
    move,      \* the Move being checked or played
    legal,     \* what check_legality returned for it
    anchors,   \* the anchor squares of the Axis objects of find_move
    \* One navigation of the dictionary, callback by callback
    _nav,      \* the navigator object
    frames,    \* the call stack of the Navigation
    calls      \* the callbacks made so far, with what they returned

dawgVars == <<pc, dawg, added, text, dict, query, result>>
mergeVars == <<infiles, lastkey, removal, word_filter, warnings>>
threadVars == <<threads, objs, wordbase, worddb>>
gameVars == <<gpc, board, racks, bag, scores, player, move, legal, anchors>>
navVars == <<_nav, frames, calls>>

vars == <<dawgVars, mergeVars, threadVars, gameVars, navVars>>

-----------------------------------------------------------------------------
(* Bounds of the model *)

\* Longest word fed to the builder
MaxLen == 2
\* Largest number of words fed to the builder
MaxWords == 4

-----------------------------------------------------------------------------
(* Alphabet (languages.py) *)

\* The letters of the model, in the order of Alphabet.full_order
Order == <<"a", "b">>

Letters == {Order[i] : i \in 1..Len(Order)}

BAR == "|"

\* Alphabet._lcmap: letters sort by their place in the order; the
\* vertical bar sorts after the letters used here
Rank(ch) == IF ch \in Letters
            THEN CHOOSE i \in 1..Len(Order) : Order[i] = ch
            ELSE Len(Order) + 1

\* Alphabet.sortkey
sortkey(w) == [i \in 1..Len(w) |-> Rank(w[i])]

\* Python's comparison of two lists of integers: k1 < k2
RECURSIVE KeyLess(_, _)
KeyLess(k1, k2) ==
    IF k2 = <<>> THEN FALSE
    ELSE IF k1 = <<>> THEN TRUE
    ELSE IF Head(k1) # Head(k2) THEN Head(k1) < Head(k2)
    ELSE KeyLess(Tail(k1), Tail(k2))

\* All words over the letters with 1..n letters
RECURSIVE WordsOfLen(_)
WordsOfLen(n) ==
    IF n = 0 THEN {<<>>}
    ELSE {Append(w, c) : w \in WordsOfLen(n - 1), c \in Letters}

WordsUpTo(n) == UNION {WordsOfLen(k) : k \in 1..n}

Vocabulary == WordsUpTo(MaxLen)


-----------------------------------------------------------------------------
(* Python dict, in insertion order: a sequence of [p |-> key, n |-> value] *)

DictHas(es, k) == \E i \in 1..Len(es) : es[i].p = k

DictIndex(es, k) == CHOOSE i \in 1..Len(es) : es[i].p = k

DictGet(es, k) == es[DictIndex(es, k)].n

\* A dict that takes a key a second time
DictSetAgain(es, k, v) == Append(es, [p |-> k, n |-> v])

\* d[k] = v: a key that is present keeps its place, a new key goes last
DictSet(es, k, v) ==
    IF DictHas(es, k)
    THEN [es EXCEPT ![DictIndex(es, k)].n = v]
    ELSE Append(es, [p |-> k, n |-> v])

\* del d[k]
DictDel(es, k) ==
    LET i == DictIndex(es, k)
    IN  SubSeq(es, 1, i - 1) \o SubSeq(es, i + 1, Len(es))

-----------------------------------------------------------------------------
(* DAWG builder (dawgbuilder.py) *)

\* Longest possible word to be processed
MAXLEN == 48

\* A dict pointer of _dicts that is None
NONE == -1

Digits == <<"0", "1", "2", "3", "4", "5", "6", "7", "8", "9">>

\* str(n) of a non-negative integer
RECURSIVE DecStr(_)
DecStr(n) ==
    IF n < 10 THEN <<Digits[n + 1]>>
    ELSE DecStr(n \div 10) \o <<Digits[(n % 10) + 1]>>

\* "sep".join(parts)
RECURSIVE Join(_, _)
Join(parts, sep) ==
    IF parts = <<>> THEN <<>>
    ELSE IF Len(parts) = 1 THEN parts[1]
    ELSE parts[1] \o sep \o Join(Tail(parts), sep)

\* One step of a stable sort by sort key: e goes before the first edge whose
\* prefix has a greater key
InsertByPrefix(sorted, e) ==
    LET later == {k \in 1..Len(sorted) :
                      KeyLess(sortkey(e.p), sortkey(sorted[k].p))}
        at == IF later = {} THEN Len(sorted) + 1
              ELSE CHOOSE k \in later : \A m \in later : k <= m
    IN  SubSeq(sorted, 1, at - 1) \o <<e>> \o SubSeq(sorted, at, Len(sorted))

RECURSIVE SortFrom(_, _)
SortFrom(sorted, rest) ==
    IF rest = <<>> THEN sorted
    ELSE SortFrom(InsertByPrefix(sorted, Head(rest)), Tail(rest))

\* The edges in the order of the dict, not sorted
unsorted_by_prefix(es) == es

\* _DawgNode.sort_by_prefix
sort_by_prefix(es) == SortFrom(<<>>, es)

\* _DawgNode.stringify_edges: D is the builder, es the edges of a node
stringify_edges(D, es) ==
    LET se == sort_by_prefix(es)
        one(e) == e.p \o <<":">> \o
                  (IF e.n = 0 THEN <<"0">> ELSE DecStr(D.nodes[e.n].id))
    IN  Join([i \in 1..Len(se) |-> one(se[i])], <<"_">>)

\* _DawgNode.__str__ of the node object oid
NodeStr(D, oid) ==
    LET edges == stringify_edges(D, D.nodes[oid].edges)
    IN  IF D.nodes[oid].final THEN <<"|", "_">> \o edges ELSE edges

\* _Dawg.__init__
NewDawg ==
    [lastword |-> <<>>, lastlen |-> 0, root |-> <<>>, nodes |-> <<>>,
     dicts |-> <<>>, unique |-> <<>>, nextid |-> 1]

\* The edge dict a pointer refers to: 0 is the root dict, oid > 0 the edges
\* of that node
GetEdges(D, ref) == IF ref = 0 THEN D.root ELSE D.nodes[ref].edges

SetEdges(D, ref, es) ==
    IF ref = 0 THEN [D EXCEPT !.root = es]
    ELSE [D EXCEPT !.nodes[ref].edges = es]

\* self._dicts[j]
DictsAt(D, j) ==
    IF j = 0 THEN 0 ELSE IF j <= Len(D.dicts) THEN D.dicts[j] ELSE NONE

\* self._dicts[j] = ref
DictsPut(D, j, ref) ==
    IF j <= Len(D.dicts) THEN [D EXCEPT !.dicts[j] = ref]
    ELSE [D EXCEPT !.dicts = Append(@, ref)]

\* A lookup in the unique-node table that never finds the signature
InUniqueNever(D, node) == FALSE

\* node in self._unique_nodes (node 0 is None, found by identity)
InUnique(D, node) ==
    IF node = 0 THEN \E i \in 1..Len(D.unique) : D.unique[i].node = 0
    ELSE \E i \in 1..Len(D.unique) :
            D.unique[i].node # 0 /\ D.unique[i].key = NodeStr(D, node)

\* self._unique_nodes[node], for a node that is in the table
UniqueGet(D, node) ==
    IF node = 0 THEN 0
    ELSE D.unique[CHOOSE i \in 1..Len(D.unique) :
            D.unique[i].node # 0 /\ D.unique[i].key = NodeStr(D, node)].node

\* self._unique_nodes[node] = node, for a node that is not in the table
UniquePut(D, node) ==
    [D EXCEPT !.unique = Append(@,
        [key |-> IF node = 0 THEN <<>> ELSE NodeStr(D, node), node |-> node])]

\* _Dawg._collapse_branch(parent, prefix, node)
_collapse_branch(D, parent, prefix, node) ==
    LET di == D.nodes[node].edges
    IN  IF di = <<>>
        THEN SetEdges(D, parent, DictSet(GetEdges(D, parent), prefix, 0))
        ELSE
          LET single == Len(di) = 1
              tail == IF D.nodes[node].final THEN <<BAR>> \o di[1].p
                      ELSE di[1].p
              prefix2 == IF single THEN prefix \o tail ELSE prefix
              D1 == IF single
                    THEN SetEdges(D, parent,
                            DictSet(DictDel(GetEdges(D, parent), prefix),
                                    prefix2, di[1].n))
                    ELSE D
              node2 == IF single THEN di[1].n ELSE node
          IN  IF InUnique(D1, node2)
              THEN SetEdges(D1, parent,
                      DictSet(GetEdges(D1, parent), prefix2,
                              UniqueGet(D1, node2)))
              ELSE UniquePut(D1, node2)

\* The loop of _collapse over the snapshot list(edges.items())
RECURSIVE CollapseItems(_, _, _)
CollapseItems(D, ref, items) ==
    IF items = <<>> THEN D
    ELSE CollapseItems(
            IF Head(items).n # 0
            THEN _collapse_branch(D, ref, Head(items).p, Head(items).n)
            ELSE D,
            ref, Tail(items))

\* _Dawg._collapse(edges)
_collapse(D, ref) == CollapseItems(D, ref, GetEdges(D, ref))

\* The loop of _collapse_to, from depth j down to divergence + 1
RECURSIVE CollapseDown(_, _, _)
CollapseDown(D, j, divergence) ==
    IF j <= divergence THEN D
    ELSE LET ref == DictsAt(D, j)
             D1 == IF ref # NONE /\ GetEdges(D, ref) # <<>>
                   THEN DictsPut(_collapse(D, ref), j, NONE)
                   ELSE D
             \* the graph D2 of this round is worked out before the next
             \* round starts
         IN  CHOOSE r \in {CollapseDown(D2, j - 1, divergence) :
                              D2 \in {D1}} : TRUE

\* _Dawg._collapse_to(divergence)
_collapse_to(D, divergence) == CollapseDown(D, D.lastlen, divergence)

\* Number of leading letters wrd shares with the last word
RECURSIVE CommonPrefix(_, _, _)
CommonPrefix(D, wrd, i) ==
    IF i < Len(wrd) /\ i < D.lastlen /\ wrd[i + 1] = D.lastword[i + 1]
    THEN CommonPrefix(D, wrd, i + 1)
    ELSE i

\* The loop of add_word that adds the divergent rest of the word, below the
\* dict d; i counts the letters placed
RECURSIVE Extend(_, _, _, _)
Extend(D, wrd, i, d) ==
    IF i >= Len(wrd) THEN D
    ELSE LET oid == Len(D.nodes) + 1
             nd == [id |-> D.nextid, edges |-> <<>>,
                    final |-> (i + 1 = Len(wrd))]
             D1 == [D EXCEPT !.nodes = Append(@, nd), !.nextid = @ + 1]
             D2 == SetEdges(D1, d,
                            DictSet(GetEdges(D1, d), <<wrd[i + 1]>>, oid))
             \* the graph D3 of this round is worked out before the next
             \* round starts
         IN  CHOOSE r \in {Extend(D3, wrd, i + 1, oid) :
                              D3 \in {DictsPut(D2, i + 1, oid)}} : TRUE

\* _Dawg.add_word(wrd); a word of MAXLEN letters or more raises ValueError
\* and leaves the builder as it was
add_word(D, wrd) ==
    IF Len(wrd) >= MAXLEN THEN D
    ELSE LET i == CommonPrefix(D, wrd, 0)
             D1 == _collapse_to(D, i)
             D2 == Extend(D1, wrd, i, DictsAt(D1, i))
         IN  [D2 EXCEPT !.lastword = wrd, !.lastlen = Len(wrd)]

\* A finish that leaves the nodes with the ids of their construction
RenumberSkipped(D, k, ix) == D

\* The renumbering loop of finish
RECURSIVE Renumber(_, _, _)
Renumber(D, k, ix) ==
    IF k > Len(D.unique) THEN D
    ELSE IF D.unique[k].node # 0
    THEN Renumber([D EXCEPT !.nodes[D.unique[k].node].id = ix], k + 1, ix + 1)
    ELSE Renumber(D, k + 1, ix)

\* _Dawg.finish()
finish(D) ==
    LET D1 == _collapse_to(D, 0)
        D2 == [D1 EXCEPT !.lastword = <<>>, !.lastlen = 0]
        D3 == _collapse(D2, 0)
    IN  Renumber(D3, 1, 2)

\* The values of the unique-node table that are nodes (not None)
UniqueNodes(D) ==
    LET F[k \in 0..Len(D.unique)] ==
          IF k = 0 THEN <<>>
          ELSE IF D.unique[k].node # 0 THEN Append(F[k - 1], D.unique[k].node)
          ELSE F[k - 1]
    IN  F[Len(D.unique)]

\* _Dawg.write_text(stream): the lines written, each with its newline
write_text(D) ==
    LET un == UniqueNodes(D)
    IN  <<stringify_edges(D, D.root) \o <<"\n">>>> \o
        [k \in 1..Len(un) |-> NodeStr(D, un[k]) \o <<"\n">>]

\* _Dawg.num_unique_nodes()
num_unique_nodes(D) == Len(D.unique)

\* _Dawg.num_edges()
num_edges(D) ==
    LET un == UniqueNodes(D)
        F[k \in 0..Len(un)] ==
          IF k = 0 THEN 0 ELSE F[k - 1] + Len(D.nodes[un[k]].edges)
    IN  F[Len(un)]


-----------------------------------------------------------------------------
(* DAWG dictionary: the loader (dawgdictionary.py) *)

\* str.split(sep) for a one-character separator
RECURSIVE SplitFrom(_, _, _, _)
SplitFrom(s, sep, cur, acc) ==
    IF s = <<>> THEN Append(acc, cur)
    ELSE IF Head(s) = sep THEN SplitFrom(Tail(s), sep, <<>>, Append(acc, cur))
    ELSE SplitFrom(Tail(s), sep, Append(cur, Head(s)), acc)

Split(s, sep) == SplitFrom(s, sep, <<>>, <<>>)

DigitValue(ch) == (CHOOSE i \in 1..10 : Digits[i] = ch) - 1

IsNumber(s) ==
    /\ s # <<>>
    /\ \A i \in 1..Len(s) : \E d \in 1..10 : Digits[d] = s[i]

\* int(s) of a string of decimal digits
RECURSIVE IntOf(_)
IntOf(s) ==
    IF s = <<>> THEN 0
    ELSE 10 * IntOf(SubSeq(s, 1, Len(s) - 1)) + DigitValue(s[Len(s)])

\* The line without its trailing CRLF or LF
StripNewline(line) ==
    LET n == Len(line)
    IN  IF n >= 2 /\ line[n - 1] = "\r" /\ line[n] = "\n"
        THEN SubSeq(line, 1, n - 2)
        ELSE IF n >= 1 /\ line[n] = "\n" THEN SubSeq(line, 1, n - 1)
        ELSE line

\* DawgDictionary.__init__: hasnodes is "self._nodes is not None", raised
\* tells that a load ended with an exception
NewDictionary ==
    [hasnodes |-> FALSE, nodes |-> <<>>, index |-> 1, raised |-> FALSE]

NewNode == [final |-> FALSE, edges |-> <<>>]

\* The loop of _parse_and_add over the edges of the line, which adds them
\* to the node nodeid
RECURSIVE ParseEdges(_, _, _)
ParseEdges(DD, nodeid, edges) ==
    IF edges = <<>> \/ DD.raised THEN DD
    ELSE LET e == Split(Head(edges), ":")
         IN  IF Len(e) < 2 \/ ~IsNumber(e[2])
             THEN [DD EXCEPT !.raised = TRUE]
             ELSE
               LET prefix == e[1]
                   edgeid == IntOf(e[2])
                   known == edgeid \in DOMAIN DD.nodes
                   target == IF edgeid = 0 THEN 0 ELSE edgeid
                   N1 == IF edgeid = 0 \/ known THEN DD.nodes
                         ELSE (edgeid :> NewNode) @@ DD.nodes
                   N2 == [N1 EXCEPT ![nodeid].edges =
                                       DictSet(@, prefix, target)]
               IN  ParseEdges([DD EXCEPT !.nodes = N2], nodeid, Tail(edges))

\* DawgDictionary._parse_and_add(line)
_parse_and_add(DD, line) ==
    LET nodeid == IF DD.index > 1 THEN DD.index ELSE 0
        edgedata == Split(line, "_")
        final == Len(edgedata) >= 1 /\ edgedata[1] = <<BAR>>
        firstedge == IF final THEN 2 ELSE 1
        N1 == IF nodeid \in DOMAIN DD.nodes THEN DD.nodes
              ELSE (nodeid :> NewNode) @@ DD.nodes
        N2 == [N1 EXCEPT ![nodeid].final = final]
    IN  ParseEdges([DD EXCEPT !.index = @ + 1, !.nodes = N2], nodeid,
                   SubSeq(edgedata, firstedge, Len(edgedata)))

\* The loop of load over the lines of the file
RECURSIVE LoadLines(_, _)
LoadLines(DD, lines) ==
    IF lines = <<>> \/ DD.raised THEN DD
    ELSE LET line == StripNewline(Head(lines))
         IN  LoadLines(IF line # <<>> THEN _parse_and_add(DD, line) ELSE DD,
                       Tail(lines))

\* DawgDictionary.load(fname) of a file that codecs.open cannot open
load_unreadable(DD) ==
    IF DD.hasnodes THEN DD
    ELSE [DD EXCEPT !.hasnodes = TRUE, !.nodes = <<>>, !.index = 1,
                    !.raised = TRUE]

\* DawgDictionary.load(fname), the file holding the given lines
load(DD, lines) ==
    IF DD.hasnodes THEN DD
    ELSE LoadLines([DD EXCEPT !.hasnodes = TRUE, !.nodes = <<>>,
                               !.index = 1], lines)


-----------------------------------------------------------------------------
(* Navigators (dawgdictionary.py) *)

WILD == "?"

\* ch in s
Has(s, ch) == \E i \in 1..Len(s) : s[i] = ch

\* s.replace(ch, "", 1)
RemoveFirst(s, ch) ==
    IF Has(s, ch)
    THEN LET i == CHOOSE k \in 1..Len(s) :
                     s[k] = ch /\ \A m \in 1..(k - 1) : s[m] # ch
         IN  SubSeq(s, 1, i - 1) \o SubSeq(s, i + 1, Len(s))
    ELSE s

\* FindNavigator.__init__
FindNavigator(word) ==
    [kind |-> "find", word |-> word, len |-> Len(word), index |-> 0,
     found |-> FALSE]

\* PermutationNavigator.__init__
PermutationNavigator(rack, minlen) ==
    [kind |-> "perm", rack |-> rack, stack |-> <<>>, result |-> <<>>,
     minlen |-> minlen]

\* MatchNavigator.__init__, for a pattern that is not empty
MatchNavigator(pattern, sort) ==
    [kind |-> "match", pattern |-> pattern, lenp |-> Len(pattern),
     index |-> 0, chmatch |-> pattern[1], wildcard |-> (pattern[1] = WILD),
     stack |-> <<>>, result |-> <<>>, sort |-> sort]

\* push_edge(firstchar): ok is the value returned, nav the navigator after
push_edge(nav, firstchar) ==
    CASE nav.kind = "find" ->
           [ok |-> nav.word[nav.index + 1] = firstchar, nav |-> nav]
      [] nav.kind = "perm" ->
           IF ~(Has(nav.rack, firstchar) \/ Has(nav.rack, WILD))
           THEN [ok |-> FALSE, nav |-> nav]
           ELSE [ok |-> TRUE,
                 nav |-> [nav EXCEPT !.stack = Append(@, nav.rack)]]
      [] nav.kind = "match" ->
           IF ~nav.wildcard /\ firstchar # nav.chmatch
           THEN [ok |-> FALSE, nav |-> nav]
           ELSE [ok |-> TRUE,
                 nav |-> [nav EXCEPT !.stack = Append(@,
                            <<nav.index, nav.chmatch, nav.wildcard>>)]]

\* accepting()
accepting(nav) ==
    CASE nav.kind = "find" -> nav.index < nav.len
      [] nav.kind = "perm" -> nav.rack # <<>>
      [] nav.kind = "match" -> nav.index < nav.lenp

\* accepts(newchar)
accepts(nav, newchar) ==
    CASE nav.kind = "find" ->
           IF newchar # nav.word[nav.index + 1]
           THEN [ok |-> FALSE, nav |-> nav]
           ELSE [ok |-> TRUE, nav |-> [nav EXCEPT !.index = @ + 1]]
      [] nav.kind = "perm" ->
           LET exactmatch == Has(nav.rack, newchar)
           IN  IF ~exactmatch /\ ~Has(nav.rack, WILD)
               THEN [ok |-> FALSE, nav |-> nav]
               ELSE [ok |-> TRUE,
                     nav |-> [nav EXCEPT !.rack =
                                IF exactmatch THEN RemoveFirst(@, newchar)
                                ELSE RemoveFirst(@, WILD)]]
      [] nav.kind = "match" ->
           IF ~nav.wildcard /\ newchar # nav.chmatch
           THEN [ok |-> FALSE, nav |-> nav]
           ELSE LET ix == nav.index + 1
                IN  [ok |-> TRUE,
                     nav |-> IF ix < nav.lenp
                             THEN [nav EXCEPT !.index = ix,
                                     !.chmatch = nav.pattern[ix + 1],
                                     !.wildcard = (nav.pattern[ix + 1] = WILD)]
                             ELSE [nav EXCEPT !.index = ix]]

\* accept(matched, final)
accept(nav, matched, final) ==
    CASE nav.kind = "find" ->
           IF final /\ nav.index = nav.len
           THEN [nav EXCEPT !.found = TRUE] ELSE nav
      [] nav.kind = "perm" ->
           IF final /\ Len(matched) >= nav.minlen
           THEN [nav EXCEPT !.result = Append(@, matched)] ELSE nav
      [] nav.kind = "match" ->
           IF final /\ nav.index = nav.lenp
           THEN [nav EXCEPT !.result = Append(@, matched)] ELSE nav

\* A pop_edge that drops the saved state instead of restoring it
pop_edge_dropped(nav) ==
    CASE nav.kind = "find" -> [ok |-> FALSE, nav |-> nav]
      [] nav.kind = "perm" ->
           [ok |-> TRUE,
            nav |-> [nav EXCEPT !.stack = SubSeq(@, 1, Len(@) - 1)]]
      [] nav.kind = "match" ->
           [ok |-> nav.stack[Len(nav.stack)][3],
            nav |-> [nav EXCEPT !.stack = SubSeq(@, 1, Len(@) - 1)]]

\* pop_edge(): ok is the value returned
pop_edge(nav) ==
    CASE nav.kind = "find" -> [ok |-> FALSE, nav |-> nav]
      [] nav.kind = "perm" ->
           [ok |-> TRUE,
            nav |-> [nav EXCEPT !.rack = nav.stack[Len(nav.stack)],
                       !.stack = SubSeq(@, 1, Len(@) - 1)]]
      [] nav.kind = "match" ->
           LET top == nav.stack[Len(nav.stack)]
           IN  [ok |-> top[3],
                nav |-> [nav EXCEPT !.index = top[1], !.chmatch = top[2],
                           !.wildcard = top[3],
                           !.stack = SubSeq(@, 1, Len(@) - 1)]]

\* The key of PermutationNavigator.done: (-len(x), Alphabet.sortkey(x))
PermBefore(x, y) ==
    \/ Len(x) > Len(y)
    \/ Len(x) = Len(y) /\ KeyLess(sortkey(x), sortkey(y))

\* The key of MatchNavigator.done: Alphabet.sortkey
MatchBefore(x, y) == KeyLess(sortkey(x), sortkey(y))

\* One step of a stable sort of words: w goes before the first word whose
\* key is greater; bylen chooses the key of PermutationNavigator
InsertWord(sorted, w, bylen) ==
    LET later == {k \in 1..Len(sorted) :
                    IF bylen THEN PermBefore(w, sorted[k])
                    ELSE MatchBefore(w, sorted[k])}
        at == IF later = {} THEN Len(sorted) + 1
              ELSE CHOOSE k \in later : \A m \in later : k <= m
    IN  SubSeq(sorted, 1, at - 1) \o <<w>> \o SubSeq(sorted, at, Len(sorted))

RECURSIVE SortWordsFrom(_, _, _)
SortWordsFrom(sorted, rest, bylen) ==
    IF rest = <<>> THEN sorted
    ELSE SortWordsFrom(InsertWord(sorted, Head(rest), bylen), Tail(rest),
                       bylen)

\* done()
done(nav) ==
    CASE nav.kind = "find" -> nav
      [] nav.kind = "perm" ->
           [nav EXCEPT !.result = SortWordsFrom(<<>>, @, TRUE)]
      [] nav.kind = "match" ->
           IF nav.sort
           THEN [nav EXCEPT !.result = SortWordsFrom(<<>>, @, FALSE)]
           ELSE nav

-----------------------------------------------------------------------------
(* Navigation (dawgdictionary.py) *)

RECURSIVE NavigateEdges(_, _, _, _, _)
RECURSIVE NavigateEdgeFrom(_, _, _, _, _, _)

\* Navigation._navigate_from_node(node, matched)
_navigate_from_node(nodes, node, matched, nav) ==
    NavigateEdges(nodes, nodes[node].edges, 1, matched, nav)

\* Navigation._navigate_from_edge(prefix, nextnode, matched)
_navigate_from_edge(nodes, prefix, nextnode, matched, nav) ==
    NavigateEdgeFrom(nodes, prefix, nextnode, 0, matched, nav)

\* The loop of _navigate_from_node, from the i-th edge of the node on
NavigateEdges(nodes, es, i, matched, nav) ==
    IF i > Len(es) THEN nav
    ELSE LET pe == push_edge(nav, es[i].p[1])
         IN  IF pe.ok
             THEN LET po == pop_edge(_navigate_from_edge(
                                nodes, es[i].p, es[i].n, matched, pe.nav))
                  IN  IF po.ok
                      THEN NavigateEdges(nodes, es, i + 1, matched, po.nav)
                      ELSE po.nav
             ELSE NavigateEdges(nodes, es, i + 1, matched, pe.nav)

\* The loop of _navigate_from_edge with j characters of the prefix done,
\* and what follows the loop
NavigateEdgeFrom(nodes, prefix, nextnode, j, matched, nav) ==
    LET lenp == Len(prefix)
    IN  IF j < lenp /\ accepting(nav)
        THEN LET a == accepts(nav, prefix[j + 1])
             IN  IF ~a.ok THEN a.nav
                 ELSE
                   LET m2 == Append(matched, prefix[j + 1])
                       j1 == j + 1
                       bar == j1 < lenp /\ prefix[j1 + 1] = BAR
                       final == \/ bar
                                \/ /\ j1 >= lenp
                                   /\ (nextnode = 0 \/ nodes[nextnode].final)
                   IN  NavigateEdgeFrom(nodes, prefix, nextnode,
                                        IF bar THEN j1 + 1 ELSE j1, m2,
                                        accept(a.nav, m2, final))
        ELSE IF j < lenp THEN nav
        ELSE IF accepting(nav) /\ nextnode # 0
             THEN _navigate_from_node(nodes, nextnode, matched, nav)
             ELSE nav

\* Navigation.go(root), for the root that navigate hands over
go(nodes, nav) ==
    done(IF accepting(nav) THEN _navigate_from_node(nodes, 0, <<>>, nav)
         ELSE nav)

\* DawgDictionary.navigate(nav): the navigator afterwards; raised tells that
\* self._nodes[0] raised KeyError
navigate(DD, nav) ==
    IF ~DD.hasnodes THEN [raised |-> FALSE, nav |-> done(nav)]
    ELSE IF 0 \notin DOMAIN DD.nodes THEN [raised |-> TRUE, nav |-> nav]
    ELSE [raised |-> FALSE, nav |-> go(DD.nodes, nav)]

\* DawgDictionary.find(word)
find(DD, word) ==
    LET r == navigate(DD, FindNavigator(word))
    IN  [raised |-> r.raised, value |-> r.nav.found]

\* DawgDictionary.find_matches(pattern), sort=True
find_matches(DD, pattern) ==
    LET r == navigate(DD, MatchNavigator(pattern, TRUE))
    IN  [raised |-> r.raised, value |-> r.nav.result]

\* DawgDictionary.find_permutations(rack, minlen)
find_permutations(DD, rack, minlen) ==
    LET r == navigate(DD, PermutationNavigator(rack, minlen))
    IN  [raised |-> r.raised, value |-> r.nav.result]


-----------------------------------------------------------------------------
(* The pipeline: build a DAWG from a sorted word list, write it as text,   *)
(* load the text into a DawgDictionary and look words up                   *)

\* Longest rack and pattern of a lookup
MaxQuery == 2

\* What a lookup leaves in result before any lookup was made
NoResult == [op |-> "none", raised |-> FALSE, value |-> FALSE]

\* Racks of letters and patterns of letters and wildcards
RECURSIVE StringsOver(_, _)
StringsOver(chars, n) ==
    IF n = 0 THEN {<<>>}
    ELSE {Append(w, c) : w \in StringsOver(chars, n - 1), c \in chars}

Racks == UNION {StringsOver(Letters, k) : k \in 0..MaxQuery}

Patterns == UNION {StringsOver(Letters \cup {WILD}, k) : k \in 1..MaxQuery}

\* The parts of the state that a specification does not use stay as they are
\* before anything is constructed
IdleDawg ==
    /\ pc = "off"
    /\ dawg = NewDawg
    /\ added = <<>>
    /\ text = <<>>
    /\ dict = NewDictionary
    /\ query = <<>>
    /\ result = NoResult

\* removals is None, word_filter is None
NoRemovals ==
    /\ removal = <<>>
    /\ word_filter = {}
    /\ warnings = <<>>

IdleMerge ==
    /\ infiles = <<>>
    /\ lastkey = <<>>
    /\ NoRemovals

IdleThreads ==
    /\ threads = <<>>
    /\ objs = <<>>
    /\ wordbase = <<>>
    /\ worddb = <<>>

IdleGame ==
    /\ gpc = "off"
    /\ board = <<>>
    /\ racks = <<>>
    /\ bag = <<>>
    /\ scores = <<>>
    /\ player = 0
    /\ move = <<>>
    /\ legal = 0
    /\ anchors = {}

IdleNav ==
    /\ _nav = <<>>
    /\ frames = <<>>
    /\ calls = <<>>

InitDawg ==
    /\ pc = "build"
    /\ dawg = NewDawg
    /\ added = <<>>
    /\ text = <<>>
    /\ dict = NewDictionary
    /\ query = <<>>
    /\ result = NoResult
    /\ IdleMerge
    /\ IdleThreads
    /\ IdleGame
    /\ IdleNav

\* The caller hands the next word of a list in ascending order to add_word
AddWord(w) ==
    /\ pc = "build"
    /\ Len(added) < MaxWords
    /\ IF added = <<>> THEN TRUE
       ELSE KeyLess(sortkey(added[Len(added)]), sortkey(w))
    /\ dawg' = add_word(dawg, w)
    /\ added' = Append(added, w)
    /\ UNCHANGED <<pc, text, dict, query, result, mergeVars, threadVars,
                   gameVars, navVars>>

Finish ==
    /\ pc = "build"
    /\ dawg' = finish(dawg)
    /\ pc' = "finished"
    /\ UNCHANGED <<added, text, dict, query, result, mergeVars, threadVars,
                   gameVars, navVars>>

WriteText ==
    /\ pc = "finished"
    /\ text' = write_text(dawg)
    /\ pc' = "written"
    /\ UNCHANGED <<dawg, added, dict, query, result, mergeVars, threadVars,
                   gameVars, navVars>>

Load ==
    /\ pc = "written"
    /\ dict' = load(dict, text)
    /\ pc' = "loaded"
    /\ UNCHANGED <<dawg, added, text, query, result, mergeVars, threadVars,
                   gameVars, navVars>>

Find(w) ==
    /\ pc = "loaded"
    /\ query' = w
    /\ result' = [op |-> "find"] @@ find(dict, w)
    /\ pc' = "answered"
    /\ UNCHANGED <<dawg, added, text, dict, mergeVars, threadVars, gameVars,
                   navVars>>

FindMatches(p) ==
    /\ pc = "loaded"
    /\ query' = p
    /\ result' = [op |-> "match"] @@ find_matches(dict, p)
    /\ pc' = "answered"
    /\ UNCHANGED <<dawg, added, text, dict, mergeVars, threadVars, gameVars,
                   navVars>>

FindPermutations(r, k) ==
    /\ pc = "loaded"
    /\ query' = <<r, k>>
    /\ result' = [op |-> "perm"] @@ find_permutations(dict, r, k)
    /\ pc' = "answered"
    /\ UNCHANGED <<dawg, added, text, dict, mergeVars, threadVars, gameVars,
                   navVars>>

NextDawg ==
    \/ \E w \in Vocabulary : AddWord(w)
    \/ Finish
    \/ WriteText
    \/ Load
    \/ \E w \in Vocabulary \cup {<<>>} : Find(w)

SpecDawg == InitDawg /\ [][NextDawg]_vars

NextMatch ==
    \/ \E w \in Vocabulary : AddWord(w)
    \/ Finish
    \/ WriteText
    \/ Load
    \/ \E p \in Patterns : FindMatches(p)

SpecMatch == InitDawg /\ [][NextMatch]_vars

NextPerm ==
    \/ \E w \in Vocabulary : AddWord(w)
    \/ Finish
    \/ WriteText
    \/ Load
    \/ \E r \in Racks, k \in 0..MaxQuery : FindPermutations(r, k)

SpecPerm == InitDawg /\ [][NextPerm]_vars

\* Racks that hold one wildcard: the wildcard alone, and a letter with it
WildRacks == {<<WILD>>} \cup {<<s, WILD>> : s \in Letters}

NextWild ==
    \/ \E w \in Vocabulary : AddWord(w)
    \/ Finish
    \/ WriteText
    \/ Load
    \/ \E r \in WildRacks, k \in 0..MaxQuery : FindPermutations(r, k)

SpecWild == InitDawg /\ [][NextWild]_vars


-----------------------------------------------------------------------------
(* One navigation, callback by callback (dawgdictionary.py): every step     *)
(* makes one call of the navigator and notes it in calls                    *)

\* The words that the dictionary of a navigation is built from
NavVocabulary ==
    {<<"a">>, <<"a", "a">>, <<"a", "b">>, <<"b">>, <<"b", "b">>}

\* Text files that no builder wrote: their lines refer to each other in a
\* cycle.  "a:2", "|_b:2" and "a:2", "b:3", "|_a:2"
CyclicTexts ==
    {<<<<"a", ":", "2", "\n">>, <<"|", "_", "b", ":", "2", "\n">>>>,
     <<<<"a", ":", "2", "\n">>, <<"b", ":", "3", "\n">>,
       <<"|", "_", "a", ":", "2", "\n">>>>}

\* The navigators of find, find_matches and find_permutations
Navigators ==
    {FindNavigator(w) : w \in Vocabulary \cup {<<>>}}
      \cup {MatchNavigator(p, TRUE) : p \in Patterns}
      \cup {PermutationNavigator(r, k) :
              r \in Racks \cup WildRacks, k \in {0, MaxQuery}}

\* The frame of a call of _navigate_from_node: the for loop is at edge i
NodeFrame(node, matched) ==
    [fn |-> "node", node |-> node, i |-> 1, matched |-> matched,
     at |-> "for"]

\* The frame of a call of _navigate_from_edge
EdgeFrame(prefix, nextnode, matched) ==
    [fn |-> "edge", prefix |-> prefix, nextnode |-> nextnode, j |-> 0,
     matched |-> matched, final |-> FALSE, at |-> "while"]

\* The frame that is running
Top == frames[Len(frames)]

SetTop(f) == [frames EXCEPT ![Len(frames)] = f]

\* calls with one more callback: its name, its argument, what it returned
\* (TRUE where it returns nothing) and the depth of the frame that made it
Call(op, arg, ret) ==
    Append(calls, [op |-> op, arg |-> arg, ret |-> ret,
                   depth |-> Len(frames)])

InitNav ==
    /\ pc \in {"build", "written"}
    /\ dawg = NewDawg
    /\ added = <<>>
    /\ text \in (IF pc = "build" THEN {<<>>} ELSE CyclicTexts)
    /\ dict = NewDictionary
    /\ query = <<>>
    /\ result = NoResult
    /\ IdleMerge
    /\ IdleThreads
    /\ IdleGame
    /\ IdleNav

\* DawgDictionary.navigate(nav), up to the call of Navigation.go; query
\* keeps the navigator as it was constructed
Navigate(n) ==
    /\ pc \in {"written", "loaded"}
    /\ query' = n
    /\ frames' = <<>>
    /\ IF ~dict.hasnodes
       THEN /\ _nav' = done(n)
            /\ calls' = <<[op |-> "done", arg |-> <<>>, ret |-> TRUE,
                           depth |-> 0]>>
            /\ pc' = "done"
       ELSE /\ _nav' = n
            /\ calls' = <<>>
            /\ pc' = IF 0 \in DOMAIN dict.nodes THEN "go" ELSE "raised"
    /\ UNCHANGED <<dawg, added, text, dict, result, mergeVars, threadVars,
                   gameVars>>

\* Navigation.go: if self._nav.accepting()
NavGo ==
    /\ pc = "go"
    /\ calls' = Call("accepting", <<>>, accepting(_nav))
    /\ IF accepting(_nav)
       THEN frames' = <<NodeFrame(0, <<>>)>> /\ pc' = "walk"
       ELSE frames' = <<>> /\ pc' = "finish"
    /\ UNCHANGED <<_nav, dawg, added, text, dict, query, result, mergeVars,
                   threadVars, gameVars>>

\* _navigate_from_node: the next edge of the loop is offered to push_edge;
\* prefix[0] of an empty prefix raises IndexError
NavPushEdge ==
    /\ pc = "walk"
    /\ Top.fn = "node" /\ Top.at = "for"
    /\ Top.i <= Len(dict.nodes[Top.node].edges)
    /\ LET e == dict.nodes[Top.node].edges[Top.i]
       IN  IF e.p = <<>>
           THEN pc' = "raised" /\ UNCHANGED <<_nav, frames, calls>>
           ELSE /\ pc' = pc
                /\ _nav' = push_edge(_nav, e.p[1]).nav
                /\ calls' = Call("push_edge", e.p[1],
                                 push_edge(_nav, e.p[1]).ok)
                /\ frames' =
                     IF push_edge(_nav, e.p[1]).ok
                     THEN Append(SetTop([Top EXCEPT !.at = "pop"]),
                                 EdgeFrame(e.p, e.n, Top.matched))
                     ELSE SetTop([Top EXCEPT !.i = @ + 1])
    /\ UNCHANGED <<dawg, added, text, dict, query, result, mergeVars,
                   threadVars, gameVars>>

\* The loop of _navigate_from_node without its break: it goes on to the
\* next edge whatever pop_edge returns
NavPopEdgeNoBreak ==
    /\ pc = "walk"
    /\ Top.fn = "node" /\ Top.at = "pop"
    /\ _nav' = pop_edge(_nav).nav
    /\ calls' = Call("pop_edge", <<>>, pop_edge(_nav).ok)
    /\ frames' = SetTop([Top EXCEPT !.i = @ + 1, !.at = "for"])
    /\ UNCHANGED <<pc, dawg, added, text, dict, query, result, mergeVars,
                   threadVars, gameVars>>

\* _navigate_from_node: the edge has been navigated, pop_edge is called and
\* the loop goes on or breaks
NavPopEdge ==
    /\ pc = "walk"
    /\ Top.fn = "node" /\ Top.at = "pop"
    /\ _nav' = pop_edge(_nav).nav
    /\ calls' = Call("pop_edge", <<>>, pop_edge(_nav).ok)
    /\ frames' = IF pop_edge(_nav).ok
                 THEN SetTop([Top EXCEPT !.i = @ + 1, !.at = "for"])
                 ELSE SetTop([Top EXCEPT !.at = "ret"])
    /\ UNCHANGED <<pc, dawg, added, text, dict, query, result, mergeVars,
                   threadVars, gameVars>>

\* _navigate_from_edge: the test of the while loop with characters of the
\* prefix left; when the navigator accepts no more, the function returns
NavAccepting ==
    /\ pc = "walk"
    /\ Top.fn = "edge" /\ Top.at = "while"
    /\ Top.j < Len(Top.prefix)
    /\ calls' = Call("accepting", <<>>, accepting(_nav))
    /\ frames' = SetTop([Top EXCEPT
                           !.at = IF accepting(_nav) THEN "accepts"
                                  ELSE "ret"])
    /\ UNCHANGED <<pc, _nav, dawg, added, text, dict, query, result,
                   mergeVars, threadVars, gameVars>>

\* _navigate_from_edge: accepts(prefix[j]), and when it is accepted the
\* matched path, j and the final flag
NavAccepts ==
    /\ pc = "walk"
    /\ Top.fn = "edge" /\ Top.at = "accepts"
    /\ LET ch == Top.prefix[Top.j + 1]
           lenp == Len(Top.prefix)
           j1 == Top.j + 1
           bar == j1 < lenp /\ Top.prefix[j1 + 1] = BAR
           final == \/ bar
                    \/ /\ j1 >= lenp
                       /\ \/ Top.nextnode = 0
                          \/ dict.nodes[Top.nextnode].final
       IN  /\ _nav' = accepts(_nav, ch).nav
           /\ calls' = Call("accepts", ch, accepts(_nav, ch).ok)
           /\ frames' =
                IF accepts(_nav, ch).ok
                THEN SetTop([Top EXCEPT !.matched = Append(@, ch),
                               !.j = IF bar THEN j1 + 1 ELSE j1,
                               !.final = final, !.at = "accept"])
                ELSE SetTop([Top EXCEPT !.at = "ret"])
    /\ UNCHANGED <<pc, dawg, added, text, dict, query, result, mergeVars,
                   threadVars, gameVars>>

\* _navigate_from_edge: accept(matched, final), then the loop test again
NavAccept ==
    /\ pc = "walk"
    /\ Top.fn = "edge" /\ Top.at = "accept"
    /\ _nav' = accept(_nav, Top.matched, Top.final)
    /\ calls' = Call("accept", <<Top.matched, Top.final>>, TRUE)
    /\ frames' = SetTop([Top EXCEPT !.at = "while"])
    /\ UNCHANGED <<pc, dawg, added, text, dict, query, result, mergeVars,
                   threadVars, gameVars>>

\* _navigate_from_edge after the whole prefix: if the navigator is still
\* accepting and there is a next node, _navigate_from_node(nextnode)
NavNextNode ==
    /\ pc = "walk"
    /\ Top.fn = "edge" /\ Top.at = "while"
    /\ Top.j >= Len(Top.prefix)
    /\ calls' = Call("accepting", <<>>, accepting(_nav))
    /\ frames' = IF accepting(_nav) /\ Top.nextnode # 0
                 THEN Append(SetTop([Top EXCEPT !.at = "ret"]),
                             NodeFrame(Top.nextnode, Top.matched))
                 ELSE SetTop([Top EXCEPT !.at = "ret"])
    /\ UNCHANGED <<pc, _nav, dawg, added, text, dict, query, result,
                   mergeVars, threadVars, gameVars>>

\* The running function returns to its caller: the loop over the edges is
\* over or was broken, or _navigate_from_edge has reached a return
NavReturn ==
    /\ pc = "walk"
    /\ \/ Top.at = "ret"
       \/ /\ Top.fn = "node" /\ Top.at = "for"
          /\ Top.i > Len(dict.nodes[Top.node].edges)
    /\ frames' = SubSeq(frames, 1, Len(frames) - 1)
    /\ pc' = IF Len(frames) = 1 THEN "finish" ELSE "walk"
    /\ UNCHANGED <<_nav, calls, dawg, added, text, dict, query, result,
                   mergeVars, threadVars, gameVars>>

\* Navigation.go: self._nav.done()
NavDone ==
    /\ pc = "finish"
    /\ _nav' = done(_nav)
    /\ calls' = Call("done", <<>>, TRUE)
    /\ pc' = "done"
    /\ UNCHANGED <<frames, dawg, added, text, dict, query, result,
                   mergeVars, threadVars, gameVars>>

NextNav ==
    \/ \E w \in NavVocabulary : AddWord(w)
    \/ Finish
    \/ WriteText
    \/ Load
    \/ \E n \in Navigators : Navigate(n)
    \/ NavGo
    \/ NavPushEdge
    \/ NavPopEdge
    \/ NavAccepting
    \/ NavAccepts
    \/ NavAccept
    \/ NavNextNode
    \/ NavReturn
    \/ NavDone

SpecNav == InitNav /\ [][NextNav]_vars

\* The steps that navigate makes once it was called
NavStep ==
    \/ NavGo
    \/ NavPushEdge
    \/ NavPopEdge
    \/ NavAccepting
    \/ NavAccepts
    \/ NavAccept
    \/ NavNextNode
    \/ NavReturn
    \/ NavDone

\* A call of navigate is never held up: it runs in the thread of its
\* caller, and what its code does next, it does
FairNav == SpecNav /\ WF_vars(NavStep)

-----------------------------------------------------------------------------
(* DawgBuilder._load: the merge of the input files (dawgbuilder.py) *)

\* Largest number of input files of a build
MaxFiles == 2
\* Largest number of words in one input file
MaxFileWords == 2

\* The graph of a build that is given the words of one sorted file: add_word
\* for each word, then finish()
RECURSIVE BuiltFrom(_, _)
BuiltFrom(D, ws) ==
    IF ws = <<>> THEN finish(D)
    ELSE BuiltFrom(add_word(D, Head(ws)), Tail(ws))

\* The words that the input files of the merge hold
MergeWords == {<<"a", "a">>, <<"a", "b">>, <<"b">>}

\* The input files of a build: at most MaxFiles lists of at most
\* MaxFileWords words; the first (main) file is in ascending order, the
\* others are in any order
InputFiles ==
    LET FileLists == UNION {[1..k -> MergeWords] : k \in 0..MaxFileWords}
        Ascending(ws) ==
          \A i \in 1..(Len(ws) - 1) :
             ~KeyLess(sortkey(ws[i + 1]), sortkey(ws[i]))
    IN  UNION {{fs \in [1..n -> FileLists] : Ascending(fs[1])} :
                 n \in 1..MaxFiles}

\* _InFile.read_word and _InFileToBeSorted.read_word
read_word(f) ==
    IF f.index >= Len(f.list) THEN [f EXCEPT !.eof = TRUE]
    ELSE [f EXCEPT !.nxt = f.list[f.index + 1], !.index = f.index + 1]

UnsortedList(lines) == lines

\* _InFileToBeSorted._init: self._list.sort(key=Alphabet.sortkey)
SortedList(lines) == SortWordsFrom(<<>>, lines, FALSE)

\* _InFile.__init__ and _InFileToBeSorted.__init__, with the first
\* read_word; lines are the lines of the file, list the words to be read:
\* the lines that are not empty and are shorter than MAXLEN, which
\* _InFile.read_word skips line by line and _InFileToBeSorted._init leaves
\* out of its list
InFile(lines, tobesorted) ==
    LET valid(line) == line # <<>> /\ Len(line) < MAXLEN
    IN  read_word([lines |-> lines,
                   list |-> IF tobesorted
                            THEN SortedList(SelectSeq(lines, valid))
                            ELSE SelectSeq(lines, valid),
                   index |-> 0, eof |-> FALSE, nxt |-> <<>>])

\* The for loop of a merge round: fs are the files, i the file looked at and
\* s the file with the smallest next word so far (0: None)
RECURSIVE FindSmallest(_, _, _)
FindSmallest(fs, i, s) ==
    IF i > Len(fs) THEN [infiles |-> fs, smallest |-> s]
    ELSE IF fs[i].eof THEN FindSmallest(fs, i + 1, s)
    ELSE IF s = 0 THEN FindSmallest(fs, i + 1, i)
    ELSE LET key_f == sortkey(fs[i].nxt)
             key_smallest == sortkey(fs[s].nxt)
         IN  IF key_f = key_smallest
             THEN FindSmallest([fs EXCEPT ![i] = read_word(@)], i + 1, s)
             ELSE IF KeyLess(key_f, key_smallest)
             THEN FindSmallest(fs, i + 1, i)
             ELSE FindSmallest(fs, i + 1, s)

InitMerge ==
    /\ pc = "open"
    /\ dawg = NewDawg
    /\ added = <<>>
    /\ text = <<>>
    /\ dict = NewDictionary
    /\ query = <<>>
    /\ result = NoResult
    /\ infiles \in InputFiles
    /\ lastkey = <<>>
    /\ NoRemovals
    /\ IdleThreads
    /\ IdleGame
    /\ IdleNav

\* The files are opened: the first as it is, the others and the removal
\* list sorted in memory
OpenFiles ==
    /\ pc = "open"
    /\ infiles' = [i \in DOMAIN infiles |-> InFile(infiles[i], i # 1)]
    /\ removal' = [i \in DOMAIN removal |-> InFile(removal[i], TRUE)]
    /\ pc' = "merge"
    /\ UNCHANGED <<dawg, added, text, dict, query, result, lastkey,
                   word_filter, warnings, threadVars, gameVars, navVars>>

\* A removal list that is never looked at
remove_key_none(rem) == <<>>

\* remove_key: removal.next_key(), None (the empty key) when there is no
\* removal list or it is exhausted
remove_key(rem) ==
    IF rem = <<>> \/ rem[1].eof THEN <<>> ELSE sortkey(rem[1].nxt)

\* while remove_key is not None and remove_key < key: removal.read_word()
RECURSIVE SkipRemovals(_, _)
SkipRemovals(rem, key) ==
    IF remove_key(rem) # <<>> /\ KeyLess(remove_key(rem), key)
    THEN SkipRemovals(<<read_word(rem[1])>>, key)
    ELSE rem

\* One round of the merge loop.  The smallest next word is skipped when it
\* is not greater than the last word that passed (with a warning when it
\* is smaller) and when the word filter turns it down; otherwise the
\* removal list is moved up to it, and the word is added unless the
\* removal list holds it
MergeRound ==
    /\ pc = "merge"
    /\ LET found == FindSmallest(infiles, 1, 0)
           s == found.smallest
       IN  /\ s # 0
           /\ LET word == found.infiles[s].nxt
                  key == sortkey(word)
                  skip == \/ lastkey # <<>> /\ ~KeyLess(lastkey, key)
                          \/ word \in word_filter
                  rem == SkipRemovals(removal, key)
                  hit == remove_key(rem) = key
              IN  /\ warnings' =
                       IF lastkey # <<>> /\ KeyLess(key, lastkey)
                       THEN Append(warnings, word) ELSE warnings
                  /\ removal' = IF skip THEN removal
                                ELSE IF hit THEN <<read_word(rem[1])>>
                                ELSE rem
                  /\ dawg' = IF skip \/ hit THEN dawg
                             ELSE add_word(dawg, word)
                  /\ added' = IF skip \/ hit THEN added
                              ELSE Append(added, word)
                  /\ lastkey' = IF skip THEN lastkey ELSE key
                  /\ infiles' = [found.infiles EXCEPT ![s] = read_word(@)]
    /\ UNCHANGED <<pc, text, dict, query, result, word_filter, threadVars,
                   gameVars, navVars>>

\* All files are exhausted: the loop ends and the graph is finished
MergeDone ==
    /\ pc = "merge"
    /\ FindSmallest(infiles, 1, 0).smallest = 0
    /\ dawg' = finish(dawg)
    /\ pc' = "finished"
    /\ UNCHANGED <<added, text, dict, query, result, mergeVars, threadVars,
                   gameVars, navVars>>

NextMerge ==
    \/ OpenFiles
    \/ MergeRound
    \/ MergeDone

SpecMerge == InitMerge /\ [][NextMerge]_vars

\* A build with a removal list and a word filter: the words of its files,
\* the removal lists (none, or the lines of the removals file) and the word
\* filters (none, or one that turns the word b down)
StreamWords == {<<"a">>, <<"b">>}

RemovalLists ==
    {<<>>, <<<<<<"a">>>>>>, <<<<<<"b">>>>>>, <<<<<<"b">>, <<"a">>>>>>}

WordFilters == {{}, {<<"b">>}}

\* ws is in ascending order, equal neighbours allowed
NonDecreasing(ws) ==
    \A i \in 1..(Len(ws) - 1) : ~KeyLess(sortkey(ws[i + 1]), sortkey(ws[i]))

\* The first file in any order; the other files, which are sorted in memory
\* when they are opened, are taken in ascending order
InitRemovals ==
    /\ pc = "open"
    /\ dawg = NewDawg
    /\ added = <<>>
    /\ text = <<>>
    /\ dict = NewDictionary
    /\ query = <<>>
    /\ result = NoResult
    /\ infiles \in
         LET lists == UNION {[1..k -> StreamWords] : k \in 0..MaxFileWords}
         IN  UNION {{fs \in [1..n -> lists] :
                       \A i \in 2..n : NonDecreasing(fs[i])} :
                    n \in 1..MaxFiles}
    /\ lastkey = <<>>
    /\ removal \in RemovalLists
    /\ word_filter \in WordFilters
    /\ warnings = <<>>
    /\ IdleThreads
    /\ IdleGame
    /\ IdleNav

SpecRemovals == InitRemovals /\ [][NextMerge]_vars

\* Words and lines about as long as MAXLEN, and a short one
LongWords ==
    {[i \in 1..n |-> "a"] : n \in {1} \cup ((MAXLEN - 1)..(MAXLEN + 1))}

\* A builder that gets its words from a caller, or from one or two input
\* files of at most MaxFileWords lines
InitLimit ==
    /\ pc \in {"build", "open"}
    /\ dawg = NewDawg
    /\ added = <<>>
    /\ text = <<>>
    /\ dict = NewDictionary
    /\ query = <<>>
    /\ result = NoResult
    /\ infiles \in
         IF pc = "build" THEN {<<>>}
         ELSE {fs \in UNION {[1..n -> UNION {[1..k -> LongWords \cup {<<>>}] :
                                               k \in 0..MaxFileWords}] :
                               n \in 1..2} :
                 \A i \in 1..(Len(fs[1]) - 1) :
                    ~KeyLess(sortkey(fs[1][i + 1]), sortkey(fs[1][i]))}
    /\ lastkey = <<>>
    /\ NoRemovals
    /\ IdleThreads
    /\ IdleGame
    /\ IdleNav

\* A caller hands a word of any length to add_word, in ascending order, and
\* sees whether add_word raises ValueError
AddAnyWord(w) ==
    /\ pc = "build"
    /\ Len(added) < MaxWords
    /\ IF added = <<>> THEN TRUE
       ELSE KeyLess(sortkey(added[Len(added)]), sortkey(w))
    /\ dawg' = add_word(dawg, w)
    /\ added' = Append(added, w)
    /\ query' = w
    /\ result' = [op |-> "add", raised |-> Len(w) >= MAXLEN, value |-> FALSE]
    /\ UNCHANGED <<pc, text, dict, mergeVars, threadVars, gameVars, navVars>>

NextLimit ==
    \/ \E w \in LongWords : AddAnyWord(w)
    \/ OpenFiles
    \/ MergeRound
    \/ MergeDone

SpecLimit == InitLimit /\ [][NextLimit]_vars

-----------------------------------------------------------------------------
(* Threads that load and use the dictionary (dawgdictionary.py,            *)
(* skraflpermuter.py).  A thread runs one statement, or one block that      *)
(* touches no shared state but its own, at a time.  objs holds the          *)
(* DawgDictionary instances created so far; a lock is 0 when it is free     *)
(* and the number of the thread that holds it otherwise; loads counts how   *)
(* many times the node table of an instance was set up.                     *)

\* Number of threads
MaxThreads == 2
\* Largest number of calls that one thread makes
MaxCalls == 2

\* The words of the word list, resources/ordalisti.text.dawg in the model,
\* the lines of that file and the dictionary that a complete load gives
DawgWords == <<<<"a">>, <<"a", "b">>, <<"b", "a">>, <<"b", "b">>>>

DawgFile == write_text(BuiltFrom(NewDawg, DawgWords))

LoadedDawg == load(NewDictionary, DawgFile)

\* The words that the threads look up
LookupWords == {<<>>, <<"b">>, <<"b", "a">>}

\* DawgDictionary(): the dictionary with its lock
NewInstance == [dd |-> NewDictionary, lock |-> 0, loads |-> 0]

\* A thread that has made no call: op is the call it is in or has made, obj
\* the dictionary it loads, line the line that load reads next, ret the
\* place that load returns to, got what dawg() returned, result what
\* is_valid_word returned
NewThread ==
    [pc |-> "idle", op |-> "none", calls |-> 0, obj |-> 0, line |-> 0,
     ret |-> "idle", word |-> <<>>, got |-> 0,
     result |-> [raised |-> FALSE, value |-> FALSE]]

NotLoaded(o) == FALSE

\* load and load_pickle: self._nodes is not None
already_loaded(o) == o.dd.hasnodes

\* A caller invokes load() of the one dictionary that the callers share
CallLoad(t) ==
    /\ threads[t].pc = "idle"
    /\ threads[t].calls < MaxCalls
    /\ threads' = [threads EXCEPT ![t].pc = "load", ![t].op = "load",
                                  ![t].calls = @ + 1, ![t].obj = 1,
                                  ![t].ret = "idle"]
    /\ UNCHANGED <<objs, wordbase, worddb, dawgVars, mergeVars, gameVars,
                   navVars>>

\* DawgDictionary.load: the lock is taken; a dictionary that has nodes is
\* left alone, otherwise the node table is reset
LoadBegin(t) ==
    LET o == threads[t].obj
    IN  /\ threads[t].pc = "load"
        /\ objs[o].lock = 0
        /\ IF already_loaded(objs[o])
           THEN /\ threads' = [threads EXCEPT ![t].pc = threads[t].ret]
                /\ UNCHANGED objs
           ELSE /\ objs' = [objs EXCEPT
                              ![o].dd = [@ EXCEPT !.hasnodes = TRUE,
                                                  !.nodes = <<>>,
                                                  !.index = 1],
                              ![o].lock = t,
                              ![o].loads = @ + 1]
                /\ threads' = [threads EXCEPT ![t].pc = "load_line",
                                              ![t].line = 1]
        /\ UNCHANGED <<wordbase, worddb, dawgVars, mergeVars, gameVars,
                       navVars>>

\* DawgDictionary.load: one line of the file is read and added; after the
\* last line the lock is released
LoadLine(t) ==
    LET o == threads[t].obj
        n == threads[t].line
    IN  /\ threads[t].pc = "load_line"
        /\ IF n > Len(DawgFile)
           THEN /\ objs' = [objs EXCEPT ![o].lock = 0]
                /\ threads' = [threads EXCEPT ![t].pc = threads[t].ret]
           ELSE /\ objs' = [objs EXCEPT
                              ![o].dd = LoadLines(@, <<DawgFile[n]>>)]
                /\ threads' = [threads EXCEPT ![t].line = n + 1]
        /\ UNCHANGED <<wordbase, worddb, dawgVars, mergeVars, gameVars,
                       navVars>>

\* DawgDictionary.load_pickle: under the lock, a dictionary without nodes
\* gets the pickled node table
LoadPickle(t) ==
    LET o == threads[t].obj
    IN  /\ threads[t].pc = "pickle"
        /\ objs[o].lock = 0
        /\ objs' = IF already_loaded(objs[o]) THEN objs
                   ELSE [objs EXCEPT
                           ![o].dd = [@ EXCEPT !.hasnodes = TRUE,
                                               !.nodes = LoadedDawg.nodes],
                           ![o].loads = @ + 1]
        /\ threads' = [threads EXCEPT ![t].pc = threads[t].ret]
        /\ UNCHANGED <<wordbase, worddb, dawgVars, mergeVars, gameVars,
                       navVars>>

\* Wordbase.dawg(): the unlocked test of Wordbase._dawg
WordbaseDawg(t) ==
    /\ threads[t].pc = "idle"
    /\ threads[t].calls < MaxCalls
    /\ threads' = [threads EXCEPT
                     ![t].pc = IF wordbase.dawg = 0 THEN "wb_load"
                               ELSE "wb_return",
                     ![t].op = "dawg",
                     ![t].calls = @ + 1]
    /\ UNCHANGED <<objs, wordbase, worddb, dawgVars, mergeVars, gameVars,
                   navVars>>

\* Wordbase._load: under Wordbase._lock, the second test of Wordbase._dawg;
\* a new DawgDictionary is created and loaded from the pickle file or from
\* the text file, whichever is newer
WordbaseLoad(t) ==
    /\ threads[t].pc = "wb_load"
    /\ wordbase.lock = 0
    /\ IF wordbase.dawg # 0
       THEN /\ threads' = [threads EXCEPT ![t].pc = "wb_return"]
            /\ UNCHANGED <<objs, wordbase>>
       ELSE /\ wordbase' = [wordbase EXCEPT !.lock = t]
            /\ objs' = Append(objs, NewInstance)
            /\ \E how \in {"load", "pickle"} :
                  threads' = [threads EXCEPT ![t].pc = how,
                                             ![t].obj = Len(objs) + 1,
                                             ![t].ret = "wb_assign"]
    /\ UNCHANGED <<worddb, dawgVars, mergeVars, gameVars, navVars>>

\* Wordbase._load: Wordbase._dawg is assigned when the dictionary is loaded
\* and Wordbase._lock is released
WordbaseAssign(t) ==
    /\ threads[t].pc = "wb_assign"
    /\ wordbase' = [dawg |-> threads[t].obj, lock |-> 0]
    /\ threads' = [threads EXCEPT ![t].pc = "wb_return"]
    /\ UNCHANGED <<objs, worddb, dawgVars, mergeVars, gameVars, navVars>>

\* Wordbase.dawg(): return Wordbase._dawg
WordbaseReturn(t) ==
    /\ threads[t].pc = "wb_return"
    /\ threads' = [threads EXCEPT ![t].pc = "idle",
                                  ![t].got = wordbase.dawg]
    /\ UNCHANGED <<objs, wordbase, worddb, dawgVars, mergeVars, gameVars,
                   navVars>>

\* The callers of Wordbase.dawg() and of load() of one shared dictionary
InitWordbase ==
    /\ threads = [t \in 1..MaxThreads |-> NewThread]
    /\ objs = <<NewInstance>>
    /\ wordbase = [dawg |-> 0, lock |-> 0]
    /\ worddb = <<>>
    /\ IdleDawg
    /\ IdleMerge
    /\ IdleGame
    /\ IdleNav

NextWordbase ==
    \E t \in 1..MaxThreads :
        \/ CallLoad(t)
        \/ LoadBegin(t)
        \/ LoadLine(t)
        \/ LoadPickle(t)
        \/ WordbaseDawg(t)
        \/ WordbaseLoad(t)
        \/ WordbaseAssign(t)
        \/ WordbaseReturn(t)

SpecWordbase == InitWordbase /\ [][NextWordbase]_vars

\* WordDatabase.is_valid_word(word): the empty word is not valid; the
\* dictionary is loaded if self._dawg is None
is_valid_word(t, w) ==
    /\ threads[t].pc = "idle"
    /\ threads[t].calls < MaxCalls
    /\ threads' = [threads EXCEPT
                     ![t].pc = IF w = <<>> THEN "idle"
                               ELSE IF worddb.dawg = 0 THEN "wd_load"
                               ELSE "wd_find",
                     ![t].op = "valid",
                     ![t].calls = @ + 1,
                     ![t].word = w,
                     ![t].result = [raised |-> FALSE, value |-> FALSE]]
    /\ UNCHANGED <<objs, wordbase, worddb, dawgVars, mergeVars, gameVars,
                   navVars>>

\* WordDatabase._load: return if self._dawg is not None, otherwise
\* self._dawg = DawgDictionary()
WordDatabaseLoad(t) ==
    /\ threads[t].pc = "wd_load"
    /\ IF worddb.dawg # 0
       THEN /\ threads' = [threads EXCEPT ![t].pc = "wd_find"]
            /\ UNCHANGED <<objs, worddb>>
       ELSE /\ objs' = Append(objs, NewInstance)
            /\ worddb' = [dawg |-> Len(objs) + 1]
            /\ threads' = [threads EXCEPT ![t].pc = "wd_call"]
    /\ UNCHANGED <<wordbase, dawgVars, mergeVars, gameVars, navVars>>

\* WordDatabase._load: self._dawg.load(fname)
WordDatabaseCallLoad(t) ==
    /\ threads[t].pc = "wd_call"
    /\ threads' = [threads EXCEPT ![t].pc = "load",
                                  ![t].obj = worddb.dawg,
                                  ![t].ret = "wd_find"]
    /\ UNCHANGED <<objs, wordbase, worddb, dawgVars, mergeVars, gameVars,
                   navVars>>

\* WordDatabase.is_valid_word: return self._dawg.find(word)
WordDatabaseFind(t) ==
    /\ threads[t].pc = "wd_find"
    /\ threads' = [threads EXCEPT
                     ![t].pc = "idle",
                     ![t].result = find(objs[worddb.dawg].dd,
                                        threads[t].word)]
    /\ UNCHANGED <<objs, wordbase, worddb, dawgVars, mergeVars, gameVars,
                   navVars>>

\* The callers of is_valid_word of the one WordDatabase
InitWordDatabase ==
    /\ threads = [t \in 1..MaxThreads |-> NewThread]
    /\ objs = <<>>
    /\ wordbase = <<>>
    /\ worddb = [dawg |-> 0]
    /\ IdleDawg
    /\ IdleMerge
    /\ IdleGame
    /\ IdleNav

NextWordDatabase ==
    \E t \in 1..MaxThreads :
        \/ \E w \in LookupWords : is_valid_word(t, w)
        \/ WordDatabaseLoad(t)
        \/ WordDatabaseCallLoad(t)
        \/ LoadBegin(t)
        \/ LoadLine(t)
        \/ WordDatabaseFind(t)

SpecWordDatabase == InitWordDatabase /\ [][NextWordDatabase]_vars

-----------------------------------------------------------------------------
(* Board, racks and moves (skraflmechanics.py; skraflplayer.py holds the   *)
(* same classes, its check_legality without the rack argument).  Rows and  *)
(* columns count from 0 as in the code.  The letters, tiles and closed     *)
(* marks of a board are kept for the squares that have one; every other    *)
(* square holds ' '.  Integer division is that of the interpreter the      *)
(* game modules are written for (print statements, unicode()): 15 / 2 = 7. *)

\* Largest number of covers of a move that a caller submits
MaxCovers == 2

\* Board.SIZE and the tables Board._wordscore and Board._letterscore
Board ==
    [SIZE |-> 15,
     wordscore |->
       << <<3,1,1,1,1,1,1,3,1,1,1,1,1,1,3>>, <<1,2,1,1,1,1,1,1,1,1,1,1,1,2,1>>,
          <<1,1,2,1,1,1,1,1,1,1,1,1,2,1,1>>, <<1,1,1,2,1,1,1,1,1,1,1,2,1,1,1>>,
          <<1,1,1,1,2,1,1,1,1,1,2,1,1,1,1>>, <<1,1,1,1,1,1,1,1,1,1,1,1,1,1,1>>,
          <<1,1,1,1,1,1,1,1,1,1,1,1,1,1,1>>, <<3,1,1,1,1,1,1,2,1,1,1,1,1,1,3>>,
          <<1,1,1,1,1,1,1,1,1,1,1,1,1,1,1>>, <<1,1,1,1,1,1,1,1,1,1,1,1,1,1,1>>,
          <<1,1,1,1,2,1,1,1,1,1,2,1,1,1,1>>, <<1,1,1,2,1,1,1,1,1,1,1,2,1,1,1>>,
          <<1,1,2,1,1,1,1,1,1,1,1,1,2,1,1>>, <<1,2,1,1,1,1,1,1,1,1,1,1,1,2,1>>,
          <<3,1,1,1,1,1,1,3,1,1,1,1,1,1,3>> >>,
     letterscore |->
       << <<1,1,1,2,1,1,1,1,1,1,1,2,1,1,1>>, <<1,1,1,1,1,3,1,1,1,3,1,1,1,1,1>>,
          <<1,1,1,1,1,1,2,1,2,1,1,1,1,1,1>>, <<2,1,1,1,1,1,1,2,1,1,1,1,1,1,2>>,
          <<1,1,1,1,1,1,1,1,1,1,1,1,1,1,1>>, <<1,3,1,1,1,1,1,1,1,1,1,1,1,3,1>>,
          <<1,1,2,1,1,1,1,1,1,1,1,1,2,1,1>>, <<1,1,1,2,1,1,1,1,1,1,1,2,1,1,1>>,
          <<1,1,2,1,1,1,1,1,1,1,1,1,2,1,1>>, <<1,3,1,1,1,1,1,1,1,1,1,1,1,3,1>>,
          <<1,1,1,1,1,1,1,1,1,1,1,1,1,1,1>>, <<2,1,1,1,1,1,1,2,1,1,1,1,1,1,2>>,
          <<1,1,1,1,1,1,2,1,2,1,1,1,1,1,1>>, <<1,1,1,1,1,3,1,1,1,3,1,1,1,1,1>>,
          <<1,1,1,2,1,1,1,1,1,1,1,2,1,1,1>> >>]

\* Rack.MAX_TILES
Rack == [MAX_TILES |-> 7]

\* The return codes of Move.check_legality and Move.BINGO_BONUS, without a
\* bonus and as they are
MoveNoBonus ==
    [LEGAL |-> 0, NULL_MOVE |-> 1, FIRST_MOVE_NOT_IN_CENTER |-> 2,
     DISJOINT |-> 3, NOT_ADJACENT |-> 4, SQUARE_ALREADY_OCCUPIED |-> 5,
     HAS_GAP |-> 6, WORD_NOT_IN_DICTIONARY |-> 7,
     CROSS_WORD_NOT_IN_DICTIONARY |-> 8, TOO_MANY_TILES_PLAYED |-> 9,
     TILE_NOT_IN_RACK |-> 10, BINGO_BONUS |-> 0]

Move ==
    [LEGAL |-> 0, NULL_MOVE |-> 1, FIRST_MOVE_NOT_IN_CENTER |-> 2,
     DISJOINT |-> 3, NOT_ADJACENT |-> 4, SQUARE_ALREADY_OCCUPIED |-> 5,
     HAS_GAP |-> 6, WORD_NOT_IN_DICTIONARY |-> 7,
     CROSS_WORD_NOT_IN_DICTIONARY |-> 8, TOO_MANY_TILES_PLAYED |-> 9,
     TILE_NOT_IN_RACK |-> 10, BINGO_BONUS |-> 50]

\* Alphabet.scores and Alphabet.bag_tiles of the letters of the model and of
\* the blank tile
Alphabet ==
    [scores |-> ("a" :> 1) @@ ("b" :> 5),
     bag_tiles |-> << <<"a", 11>>, <<"b", 1>>, <<WILD, 2>> >>]

\* Board.__init__
NewBoard ==
    [letters |-> <<>>, tiles |-> <<>>, closed |-> {}, numletters |-> 0,
     numtiles |-> 0]

\* Board.letter_at and Board.tile_at: m is the letters or the tiles
letter_at(m, row, col) ==
    IF <<row, col>> \in DOMAIN m THEN m[<<row, col>>] ELSE " "

\* Board.is_covered
\* Board.is_empty
never_empty(b) == FALSE

is_empty(b) == b.numletters = 0 /\ b.numtiles = 0

is_covered(b, row, col) == letter_at(b.letters, row, col) # " "

\* Board.has_adjacent
has_adjacent(b, row, col) ==
    \/ row > 0 /\ is_covered(b, row - 1, col)
    \/ row < Board.SIZE - 1 /\ is_covered(b, row + 1, col)
    \/ col > 0 /\ is_covered(b, row, col - 1)
    \/ col < Board.SIZE - 1 /\ is_covered(b, row, col + 1)

\* Board.adjacent: the letters or tiles m next to the square in the
\* direction (xd, yd), up to the first empty square or the edge
adjacent(m, row, col, xd, yd) ==
    LET inside(k) == /\ row + k * xd \in 0..(Board.SIZE - 1)
                     /\ col + k * yd \in 0..(Board.SIZE - 1)
        \* the letters from the k-th square on in the direction
        run[k \in 1..(Board.SIZE + 1)] ==
          IF inside(k) /\ letter_at(m, row + k * xd, col + k * yd) # " "
          THEN 1 + run[k + 1]
          ELSE 0
        len == run[1]
    IN  IF xd + yd < 0
        THEN [k \in 1..len |->
                letter_at(m, row + (len + 1 - k) * xd,
                          col + (len + 1 - k) * yd)]
        ELSE [k \in 1..len |-> letter_at(m, row + k * xd, col + k * yd)]

\* Board.set_letter and Board.set_tile: field is "letters" or "tiles", count
\* the counter that goes with it
set_letter(b, field, count, row, col, letter) ==
    LET prev == letter_at(b[field], row, col)
    IN  IF prev = letter THEN b
        ELSE [b EXCEPT ![field] = (<<row, col>> :> letter) @@ @,
                       ![count] = IF prev = " " /\ letter # " "
                                  THEN @ + 1 ELSE @]

\* Rack.contains
contains(rack, tiles) ==
    LET T[k \in 0..Len(tiles)] ==
          IF k = 0 THEN rack ELSE RemoveFirst(T[k - 1], tiles[k])
    IN  Len(rack) - Len(T[Len(tiles)]) = Len(tiles)

\* The words of the word list that the games are played with
GameWords ==
    <<<<"a">>, <<"a", "a", "a", "a", "a", "a">>,
      <<"a", "a", "a", "a", "a", "a", "a">>, <<"a", "a", "b">>, <<"b", "a">>,
      <<"b", "a", "a">>>>

\* word in Manager.word_db() and Manager.word_db().find_matches(query): the
\* word database answers from its dictionary, which holds GameWords
word_db_contains(word) == find(objs[worddb.dawg].dd, word).value

word_db_find_matches(q) == find_matches(objs[worddb.dawg].dd, q).value

\* Move.__init__ and Move.add_cover: a move that a caller puts together
\* from covers that add_cover accepts
NewMove(covers) ==
    [none |-> FALSE, covers |-> covers, numletters |-> 0, word |-> <<>>,
     row |-> 0, col |-> 0, horizontal |-> TRUE]

\* The move that find_move returns when there are no candidates: None
NoMove == [NewMove(<<>>) EXCEPT !.none = TRUE]

\* self._covers.sort(key = ...) of Move.check_legality, by column for a
\* horizontal move and by row for a vertical one: a stable sort
sort_covers(cs, horiz) ==
    LET key(c) == IF horiz THEN c.col ELSE c.row
        insert(s, c) ==
          LET later == {j \in 1..Len(s) : key(s[j]) > key(c)}
              at == IF later = {} THEN Len(s) + 1
                    ELSE CHOOSE j \in later : \A i \in later : j <= i
          IN  SubSeq(s, 1, at - 1) \o <<c>> \o SubSeq(s, at, Len(s))
        S[k \in 0..Len(cs)] ==
          IF k = 0 THEN <<>> ELSE insert(S[k - 1], cs[k])
    IN  S[Len(cs)]

\* Move.check_legality(board, rack), the rules of the first move, of
\* adjacency and of the cross-words, for the sorted covers and the move m3
\* with its word
check_rules(b, sorted, horiz, m3) ==
    LET n == Len(sorted)
        code(c) == [code |-> c, move |-> m3]
        cross(c) ==
          IF horiz
          THEN adjacent(b.letters, c.row, c.col, -1, 0) \o <<c.letter>>
               \o adjacent(b.letters, c.row, c.col, 1, 0)
          ELSE adjacent(b.letters, c.row, c.col, 0, -1) \o <<c.letter>>
               \o adjacent(b.letters, c.row, c.col, 0, 1)
    IN  IF is_empty(b)
        THEN IF \E i \in 1..n : /\ sorted[i].row = Board.SIZE \div 2
                                /\ sorted[i].col = Board.SIZE \div 2
             THEN code(Move.LEGAL)
             ELSE code(Move.FIRST_MOVE_NOT_IN_CENTER)
        ELSE IF ~\E i \in 1..n : has_adjacent(b, sorted[i].row, sorted[i].col)
        THEN code(Move.NOT_ADJACENT)
        ELSE IF \E i \in 1..n :
                   \/ <<sorted[i].row, sorted[i].col>> \in b.closed
                   \/ \E w \in {cross(sorted[i])} :
                         Len(w) > 1 /\ ~word_db_contains(w)
        THEN code(Move.CROSS_WORD_NOT_IN_DICTIONARY)
        ELSE code(Move.LEGAL)

\* Move.check_legality(board, rack), the check of the word in the dictionary
check_word(b, sorted, horiz, m3) ==
    IF ~word_db_contains(m3.word)
    THEN [code |-> Move.WORD_NOT_IN_DICTIONARY, move |-> m3]
    ELSE check_rules(b, sorted, horiz, m3)

\* Move.check_legality(board, rack), the word formed by the sorted covers and
\* the letters of the board, of which before come ahead of the first cover
\* and after behind the last
form_word(b, sorted, horiz, m1, before, after) ==
    LET n == Len(sorted)
        row0 == IF horiz THEN sorted[1].row ELSE sorted[1].row - before
        col0 == IF horiz THEN sorted[1].col - before ELSE sorted[1].col
        numletters == IF horiz THEN sorted[n].col + after - col0 + 1
                      ELSE sorted[n].row + after - row0 + 1
        \* W[k] is the word and the cover index after k letters
        letter(w, k) ==
          LET new == /\ w.cix <= n
                     /\ IF horiz THEN col0 + k - 1 = sorted[w.cix].col
                        ELSE row0 + k - 1 = sorted[w.cix].row
          IN  IF new
              THEN [word |-> Append(w.word, sorted[w.cix].letter),
                    cix |-> w.cix + 1]
              ELSE [word |->
                      Append(w.word,
                             IF horiz
                             THEN letter_at(b.letters, row0, col0 + k - 1)
                             ELSE letter_at(b.letters, row0 + k - 1, col0)),
                    cix |-> w.cix]
        W[k \in 0..numletters] ==
          IF k = 0 THEN [word |-> <<>>, cix |-> 1] ELSE letter(W[k - 1], k)
    IN  check_word(b, sorted, horiz,
                   [m1 EXCEPT !.row = row0, !.col = col0,
                              !.numletters = numletters,
                              !.word = W[numletters].word])

\* Move.check_legality(board, rack), the loop over the sorted covers
check_covers(b, m, sorted, horiz) ==
    LET n == Len(sorted)
        occupied(k) == is_covered(b, sorted[k].row, sorted[k].col)
        gap(k) ==
          /\ k > 1
          /\ IF horiz
             THEN \E ix \in (sorted[k - 1].col + 1)..(sorted[k].col - 1) :
                     ~is_covered(b, sorted[k].row, ix)
             ELSE \E ix \in (sorted[k - 1].row + 1)..(sorted[k].row - 1) :
                     ~is_covered(b, ix, sorted[k].col)
        failing == {k \in 1..n : occupied(k) \/ gap(k)}
        firstbad == CHOOSE k \in failing : \A j \in failing : k <= j
        m1 == [m EXCEPT !.covers = sorted, !.horizontal = horiz]
    IN  IF failing # {}
        THEN [code |-> IF occupied(firstbad)
                       THEN Move.SQUARE_ALREADY_OCCUPIED
                       ELSE Move.HAS_GAP,
              move |-> IF firstbad = 1 THEN m1
                       ELSE [m1 EXCEPT !.row = sorted[1].row,
                                       !.col = sorted[1].col]]
        ELSE form_word(b, sorted, horiz, m1,
                       IF horiz
                       THEN Len(adjacent(b.letters, sorted[1].row,
                                         sorted[1].col, 0, -1))
                       ELSE Len(adjacent(b.letters, sorted[1].row,
                                         sorted[1].col, -1, 0)),
                       IF horiz
                       THEN Len(adjacent(b.letters, sorted[1].row,
                                         sorted[n].col, 0, 1))
                       ELSE Len(adjacent(b.letters, sorted[n].row,
                                         sorted[1].col, 1, 0)))

\* Move.check_legality(board, rack): the code returned and the move as the
\* check leaves it
check_legality(b, rack, m) ==
    LET cs == m.covers
        n == Len(cs)
        horiz == \A i \in 2..n : cs[i].row = cs[1].row
        vert == \A i \in 2..n : cs[i].col = cs[1].col
        code(c) == [code |-> c, move |-> m]
    IN  IF n < 1 THEN code(Move.NULL_MOVE)
        ELSE IF n > Rack.MAX_TILES THEN code(Move.TOO_MANY_TILES_PLAYED)
        \* rack.contains(played) is evaluated but its result is not used:
        \* the return of Move.TILE_NOT_IN_RACK is commented out
        ELSE IF ~horiz /\ ~vert THEN code(Move.DISJOINT)
        ELSE check_covers(b, m, sort_covers(cs, horiz), horiz)

\* Move.score(board) of a move that check_legality has looked at
score(b, m) ==
    LET cs == m.covers
        n == Len(cs)
        tilescore(tile) == IF tile = WILD THEN 0 ELSE Alphabet.scores[tile]
        lsc(c) == Board.letterscore[c.row + 1][c.col + 1]
        wsc(c) == Board.wordscore[c.row + 1][c.col + 1]
        \* the primary word: P[k] after k letters
        tally(p, k) ==
          LET this_ix == (IF m.horizontal THEN m.col ELSE m.row) + k - 1
              cover_ix == IF p.cix > n THEN 0
                          ELSE IF m.horizontal THEN cs[p.cix].col
                          ELSE cs[p.cix].row
          IN  IF p.cix <= n /\ this_ix = cover_ix
              THEN [sc |-> p.sc + tilescore(cs[p.cix].tile) * lsc(cs[p.cix]),
                    wsc |-> p.wsc * wsc(cs[p.cix]),
                    cix |-> p.cix + 1]
              ELSE [sc |-> p.sc + Alphabet.scores[m.word[k]],
                    wsc |-> p.wsc, cix |-> p.cix]
        P[k \in 0..m.numletters] ==
          IF k = 0 THEN [sc |-> 0, wsc |-> 1, cix |-> 1]
          ELSE tally(P[k - 1], k)
        primary == P[m.numletters].sc * P[m.numletters].wsc
        crosstiles(c) ==
          IF m.horizontal
          THEN adjacent(b.tiles, c.row, c.col, -1, 0)
               \o adjacent(b.tiles, c.row, c.col, 1, 0)
          ELSE adjacent(b.tiles, c.row, c.col, 0, -1)
               \o adjacent(b.tiles, c.row, c.col, 0, 1)
        crossscore(c) ==
          LET cross == crosstiles(c)
              X[k \in 0..Len(cross)] ==
                IF k = 0 THEN tilescore(c.tile) * lsc(c)
                ELSE X[k - 1] + tilescore(cross[k])
          IN  IF cross = <<>> THEN 0 ELSE X[Len(cross)] * wsc(c)
        T[k \in 0..n] ==
          IF k = 0 THEN primary ELSE T[k - 1] + crossscore(cs[k])
    IN  T[n] + IF n = Rack.MAX_TILES THEN Move.BINGO_BONUS ELSE 0

\* Move.apply(board, rack): the board and the rack after the move
apply(b, rack, m) ==
    LET A[k \in 0..Len(m.covers)] ==
          IF k = 0 THEN [board |-> b, rack |-> rack]
          ELSE LET c == m.covers[k]
                   b1 == set_letter(A[k - 1].board, "letters", "numletters",
                                    c.row, c.col, c.letter)
               IN  [board |-> set_letter(b1, "tiles", "numtiles", c.row,
                                         c.col, c.tile),
                    rack |-> RemoveFirst(A[k - 1].rack, c.tile)]
    IN  A[Len(m.covers)]

\* Alphabet.full_bag
full_bag ==
    LET B[k \in 0..Len(Alphabet.bag_tiles)] ==
          IF k = 0 THEN <<>>
          ELSE B[k - 1] \o [i \in 1..Alphabet.bag_tiles[k][2] |->
                              Alphabet.bag_tiles[k][1]]
    IN  B[Len(Alphabet.bag_tiles)]

\* Rack.replenish(bag) with Bag.draw_tile: the racks and bags that the
\* random draws can give.  The loop draws one tile at a time while the rack
\* is short and the bag is not empty, which is at most MAX_TILES times.
replenish_none(rack, tiles) == {[rack |-> rack, bag |-> tiles]}

replenish(rack, tiles) ==
    LET draw(p) ==
          IF Len(p.rack) < Rack.MAX_TILES /\ p.bag # <<>>
          THEN {[rack |-> Append(p.rack, p.bag[i]),
                 bag |-> RemoveFirst(p.bag, p.bag[i])] : i \in 1..Len(p.bag)}
          ELSE {p}
        R[k \in 0..Rack.MAX_TILES] ==
          IF k = 0 THEN {[rack |-> rack, bag |-> tiles]}
          ELSE UNION {draw(p) : p \in R[k - 1]}
    IN  R[Rack.MAX_TILES]

\* Square.init and Square.init_crosscheck for the square (row, col) of the
\* board b: whether the square ends up closed, whether it is an anchor, and
\* its _allowed: <<>> for None, else the one set of letters
init_crosscheck(b, row, col) ==
    LET above == adjacent(b.letters, row, col, -1, 0)
        below == adjacent(b.letters, row, col, 1, 0)
        open == ~is_covered(b, row, col) /\ <<row, col>> \notin b.closed
        cross == open /\ (above # <<>> \/ below # <<>>)
        matches == word_db_find_matches(above \o <<WILD>> \o below)
    IN  IF cross /\ matches = <<>>
        THEN [closed |-> TRUE, anchor |-> FALSE, allowed |-> <<>>]
        ELSE [closed |-> <<row, col>> \in b.closed, anchor |-> cross,
              allowed |-> IF cross
                          THEN <<{matches[i][Len(above) + 1] :
                                    i \in DOMAIN matches}>>
                          ELSE <<>>]

\* Axis._init: the indexes of the squares of the axis that are anchors once
\* the axis is initialised from the board b
Axis_init(b, index, horizontal) ==
    LET x(ix) == IF horizontal THEN index ELSE ix
        y(ix) == IF horizontal THEN ix ELSE index
        vacant(ix) == ~is_covered(b, x(ix), y(ix))
        is_open(ix) ==
          vacant(ix) /\ ~init_crosscheck(b, x(ix), y(ix)).closed
        beside(ix) ==
          \/ ix > 0 /\ ~vacant(ix - 1)
          \/ ix < Board.SIZE - 1 /\ ~vacant(ix + 1)
    IN  {ix \in 0..(Board.SIZE - 1) :
           \/ init_crosscheck(b, x(ix), y(ix)).anchor
           \/ is_open(ix) /\ beside(ix)}

\* Axis.from_row and Axis.from_column for every row and column, as find_move
\* makes them: the anchors <<horizontal, index, ix>> of the axes.  The rows
\* come first, and a row changes the closed flags of its own squares only, so
\* that each row sees the board as find_move got it and each column the
\* board with the squares that the rows closed.
from_row(b) ==
    UNION {{<<TRUE, row, ix>> : ix \in Axis_init(b, row, TRUE)} :
             row \in 0..(Board.SIZE - 1)}

from_column(b) ==
    UNION {{<<FALSE, col, ix>> : ix \in Axis_init(b, col, FALSE)} :
             col \in 0..(Board.SIZE - 1)}

\* AutoPlayer.find_move(state): every Axis of the board is set up, which
\* closes the open squares for which the cross-check finds no word;
\* add_valid_moves adds no candidate, so that there is no best move
find_move(b) ==
    LET squares == (0..(Board.SIZE - 1)) \X (0..(Board.SIZE - 1))
        above(sq) == adjacent(b.letters, sq[1], sq[2], -1, 0)
        below(sq) == adjacent(b.letters, sq[1], sq[2], 1, 0)
        closing == {sq \in squares :
                      /\ ~is_covered(b, sq[1], sq[2])
                      /\ sq \notin b.closed
                      /\ above(sq) # <<>> \/ below(sq) # <<>>
                      /\ word_db_find_matches(above(sq) \o <<WILD>>
                                              \o below(sq)) = <<>>}
        candidates == <<>>
    IN  [move |-> IF candidates = <<>> THEN NoMove ELSE candidates[1],
         board |-> [b EXCEPT !.closed = @ \cup closing]]

\* The squares that the callers' moves cover, the (tile, letter) pairs that
\* add_cover accepts for them, and the covers and moves made of these, one
\* cover to a square
PlaySquares == {<<7, 7>>, <<7, 8>>, <<8, 7>>, <<9, 7>>}

Moves ==
    LET plays == {<<"a", "a">>, <<"b", "b">>, <<WILD, "b">>}
        Covers == {[row |-> sq[1], col |-> sq[2], tile |-> p[1],
                    letter |-> p[2]] : sq \in PlaySquares, p \in plays}
    IN  {m \in UNION {[1..k -> Covers] : k \in 0..MaxCovers} :
           \A i, j \in DOMAIN m :
              (m[i].row = m[j].row /\ m[i].col = m[j].col) => i = j}

\* State.__init__: an empty board and two racks drawn from the full bag.
\* The word database of Manager.word_db() has loaded its dictionary.
\* Of the racks that hold the same tiles the one in the order of the bag
\* is taken.
InitGame ==
    /\ gpc = "play"
    /\ board = NewBoard
    /\ \E r0 \in replenish(<<>>, full_bag) :
          \E r1 \in replenish(<<>>, r0.bag) :
             LET inorder(r) ==
                   {i \in 1..(Len(r) - 1) :
                      r[i] # r[i + 1] /\ r[i] # "a" /\ r[i + 1] # WILD} = {}
             IN  /\ inorder(r0.rack)
                 /\ inorder(r1.rack)
                 /\ racks = <<r0.rack, r1.rack>>
                 /\ bag = r1.bag
    /\ scores = <<0, 0>>
    /\ player = 0
    /\ move = NoMove
    /\ legal = NONE
    /\ anchors = {}
    /\ threads = <<>>
    /\ objs = <<[NewInstance EXCEPT
                   !.dd = load(NewDictionary,
                               write_text(BuiltFrom(NewDawg, GameWords))),
                   !.loads = 1]>>
    /\ wordbase = <<>>
    /\ worddb = [dawg |-> 1]
    /\ IdleDawg
    /\ IdleMerge
    /\ IdleNav

\* A caller puts a move together
SubmitMove(m) ==
    /\ gpc = "play"
    /\ move' = NewMove(m)
    /\ gpc' = "moved"
    /\ UNCHANGED <<board, racks, bag, scores, player, legal, anchors,
                   dawgVars, mergeVars, threadVars, navVars>>

\* AutoPlayer.find_move(state)
FindMove ==
    /\ gpc = "play"
    /\ move' = find_move(board).move
    /\ board' = find_move(board).board
    /\ anchors' = from_row(board) \cup from_column(board')
    /\ gpc' = "found"
    /\ UNCHANGED <<racks, bag, scores, player, legal, dawgVars, mergeVars,
                   threadVars, navVars>>

\* State.check_legality(move), of a move of a caller or of the move that
\* find_move returned
CheckLegality ==
    /\ gpc \in {"moved", "found"}
    /\ IF move.none
       THEN /\ legal' = Move.NULL_MOVE
            /\ move' = move
       ELSE /\ legal' = check_legality(board, racks[player + 1], move).code
            /\ move' = check_legality(board, racks[player + 1], move).move
    /\ gpc' = IF gpc = "found" THEN "checked found" ELSE "checked"
    /\ UNCHANGED <<board, racks, bag, scores, player, anchors, dawgVars,
                   mergeVars, threadVars, navVars>>

\* State.apply_move(move), which the callers make when the move is legal;
\* the caller is then done with the move and its code
ApplyMove ==
    /\ gpc \in {"checked", "checked found"}
    /\ legal = Move.LEGAL
    /\ LET applied == apply(board, racks[player + 1], move)
       IN  /\ scores' = [scores EXCEPT ![player + 1] = @ + score(board, move)]
           /\ board' = applied.board
           /\ \E r \in replenish(applied.rack, bag) :
                 /\ racks' = [racks EXCEPT ![player + 1] = r.rack]
                 /\ bag' = r.bag
    /\ player' = 1 - player
    /\ move' = NoMove
    /\ legal' = NONE
    /\ anchors' = {}
    /\ gpc' = "play"
    /\ UNCHANGED <<dawgVars, mergeVars, threadVars, navVars>>

\* The caller of check_legality drops a move that is not legal; the state of
\* the game stays as it is and the player is to move again
RejectMove ==
    /\ gpc \in {"checked", "checked found"}
    /\ legal # Move.LEGAL
    /\ move' = NoMove
    /\ legal' = NONE
    /\ anchors' = {}
    /\ gpc' = "play"
    /\ UNCHANGED <<board, racks, bag, scores, player, dawgVars, mergeVars,
                   threadVars, navVars>>

NextGame ==
    \/ \E m \in Moves : SubmitMove(m)
    \/ FindMove
    \/ CheckLegality
    \/ ApplyMove
    \/ RejectMove

SpecGame == InitGame /\ [][NextGame]_vars

\* First moves of a game. Some lay six or seven tiles along the middle row,
\* across the centre square: the tiles are 'a' or a blank that stands for
\* 'a', at most as many blanks as the bag holds. The others add two covers
\* for the centre square, which add_cover does not refuse.
FirstMoves ==
    LET lens == (Rack.MAX_TILES - 2)..Rack.MAX_TILES
        centre == Board.SIZE \div 2
        cover(col, tile) == [row |-> centre, col |-> col, tile |-> tile,
                             letter |-> "a"]
        long == {[i \in 1..n |-> cover(first + i - 1, ts[i])] :
                   <<n, first, ts>> \in
                      {<<n, first, ts>> \in
                         UNION {{<<k, f, t>> :
                                   f \in (centre - k + 1)..centre,
                                   t \in [1..k -> {"a", WILD}]} :
                                k \in lens} :
                         Cardinality({i \in 1..n : ts[i] = WILD}) <= 2}}
        twice == {<<cover(centre, ts[1]), cover(centre, ts[2])>> :
                    ts \in [1..2 -> {"a", WILD}]}
    IN  long \cup twice

NextFirstMove ==
    \/ \E m \in FirstMoves : is_empty(board) /\ SubmitMove(m)
    \/ CheckLegality
    \/ ApplyMove
    \/ RejectMove

SpecFirstMove == InitGame /\ [][NextFirstMove]_vars

\* Rack.replenish(bag) on its own: a rack of at most MAX_TILES tiles and a
\* bag of at most MaxBag tiles, which together are tiles of the full bag
MaxBag == 3

InitReplenish ==
    /\ gpc = "rack"
    /\ \E r, t \in [1..Len(Alphabet.bag_tiles) -> 0..Rack.MAX_TILES] :
          LET string(n) ==
                LET B[k \in 0..Len(n)] ==
                      IF k = 0 THEN <<>>
                      ELSE B[k - 1] \o [i \in 1..n[k] |->
                                          Alphabet.bag_tiles[k][1]]
                IN  B[Len(n)]
              short == {k \in DOMAIN r :
                          r[k] + t[k] > Alphabet.bag_tiles[k][2]}
          IN  /\ short = {}
              /\ Len(string(r)) <= Rack.MAX_TILES
              /\ Len(string(t)) <= MaxBag
              /\ racks = <<string(r)>>
              /\ bag = string(t)
    /\ board = <<>>
    /\ scores = <<>>
    /\ player = 0
    /\ move = <<>>
    /\ legal = 0
    /\ anchors = {}
    /\ IdleDawg
    /\ IdleMerge
    /\ IdleThreads
    /\ IdleNav

\* rack.replenish(bag)
Replenish ==
    /\ gpc = "rack"
    /\ \E r \in replenish(racks[1], bag) :
          /\ racks' = <<r.rack>>
          /\ bag' = r.bag
    /\ gpc' = "replenished"
    /\ UNCHANGED <<board, scores, player, move, legal, anchors, dawgVars,
                   mergeVars, threadVars, navVars>>

SpecReplenish == InitReplenish /\ [][Replenish]_vars

-----------------------------------------------------------------------------
(* Properties of the pipeline *)

Range(f) == {f[i] : i \in DOMAIN f}

NoRepeats(f) == \A i, j \in DOMAIN f : i # j => f[i] # f[j]

\* Number of times ch occurs in s
Count(s, ch) == Cardinality({i \in DOMAIN s : s[i] = ch})

\* The multiset of the letters of w is contained in that of r
Contained(w, r) == \A i \in DOMAIN w : Count(w, w[i]) <= Count(r, w[i])

\* The word w fits the pattern p
Fits(w, p) ==
    /\ Len(w) = Len(p)
    /\ \A i \in DOMAIN p : p[i] = WILD \/ p[i] = w[i]

\* C1: after building from an ascending list, writing the text and loading
\* it, find(w) returns true exactly when w is one of the words of the list,
\* the empty list included, and find("") returns false.
RoundTrip ==
    result.op = "find" =>
        /\ ~result.raised
        /\ result.value = (query \in Range(added))

\* The round trip of a list that holds at least one word
RoundTripOfWords ==
    (result.op = "find" /\ added # <<>>) =>
        /\ ~result.raised
        /\ result.value = (query \in Range(added))

\* C2: find_permutations(r, k) of a rack r without wildcard returns exactly
\* the words of the dictionary of at least k letters whose letters are
\* contained, as a multiset, in r, each of them once.
PermutationsExact ==
    result.op = "perm" =>
        /\ ~result.raised
        /\ NoRepeats(result.value)
        /\ Range(result.value) =
             {w \in Range(added) : Len(w) >= query[2] /\ Contained(w, query[1])}

\* The permutations found in a dictionary that holds at least one word
PermutationsOfWords ==
    (result.op = "perm" /\ added # <<>>) =>
        /\ ~result.raised
        /\ NoRepeats(result.value)
        /\ Range(result.value) =
             {w \in Range(added) : Len(w) >= query[2] /\ Contained(w, query[1])}

\* C3: find_matches(p) of a pattern p that is not empty returns exactly the
\* words of the dictionary that are as long as p and agree with p wherever
\* p is not '?'; no shorter and no longer word is returned.
MatchesExact ==
    result.op = "match" =>
        /\ ~result.raised
        /\ NoRepeats(result.value)
        /\ Range(result.value) = {w \in Range(added) : Fits(w, query)}

\* The matches found in a dictionary that holds at least one word
MatchesOfWords ==
    (result.op = "match" /\ added # <<>>) =>
        /\ ~result.raised
        /\ NoRepeats(result.value)
        /\ Range(result.value) = {w \in Range(added) : Fits(w, query)}

\* C5: two nodes of the unique-node table with the same signature are one
\* node with one id, before and after the renumbering of finish(); no two
\* of the lines 2..M of the text are equal.
SignatureEquality ==
    LET un == UniqueNodes(dawg)
    IN  /\ \A i, j \in DOMAIN un :
             (NodeStr(dawg, un[i]) = NodeStr(dawg, un[j])
              \/ dawg.nodes[un[i]].id = dawg.nodes[un[j]].id) => i = j
        /\ \A i, j \in 2..Len(text) : text[i] = text[j] => i = j

\* A finished graph in which two edges lead to the one node that stands for
\* two subtrees with the same signature
SignatureShared ==
    /\ pc = "written"
    /\ Len(text) >= 2
    /\ \E i, j \in DOMAIN dawg.root :
          i # j /\ dawg.root[i].n # 0 /\ dawg.root[i].n = dawg.root[j].n

\* The edges written in a line of the text, as <<prefix, child id>> pairs
LineEdges(line) ==
    LET body == StripNewline(line)
        items == IF body = <<>> THEN <<>> ELSE Split(body, "_")
        edges == IF items # <<>> /\ items[1] = <<BAR>> THEN Tail(items)
                 ELSE items
    IN  [i \in DOMAIN edges |-> Split(edges[i], ":")]

\* C6: in every line that write_text writes no edge prefix starts with '|'
\* or holds '||', and every child id is 0 or the number 2..M of a line that
\* is written.
PrefixHygiene ==
    \A n \in DOMAIN text :
        \A k \in DOMAIN LineEdges(text[n]) :
            LET e == LineEdges(text[n])[k]
            IN  /\ Len(e) = 2
                /\ e[1] # <<>>
                /\ e[1][1] # BAR
                /\ \A i \in 1..(Len(e[1]) - 1) :
                      ~(e[1][i] = BAR /\ e[1][i + 1] = BAR)
                /\ IsNumber(e[2])
                /\ IntOf(e[2]) = 0 \/ IntOf(e[2]) \in 2..Len(text)

\* A text with a final marker inside a prefix and an edge to a written line
PrefixWithMarker ==
    /\ pc = "written"
    /\ \E n \in DOMAIN text : \E k \in DOMAIN LineEdges(text[n]) :
          Has(LineEdges(text[n])[k][1], BAR)
    /\ \E n \in DOMAIN text : \E k \in DOMAIN LineEdges(text[n]) :
          IntOf(LineEdges(text[n])[k][2]) >= 2

-----------------------------------------------------------------------------
(* Properties of the merge *)

\* The words of all the input files of the build
WordsOfFiles ==
    UNION {{infiles[i].lines[k] : k \in 1..Len(infiles[i].lines)} :
             i \in DOMAIN infiles}

\* The words of a set in ascending order, each once
RECURSIVE AscendingList(_)
AscendingList(S) ==
    IF S = {} THEN <<>>
    ELSE LET w == CHOOSE x \in S :
                     \A y \in S \ {x} : KeyLess(sortkey(x), sortkey(y))
         IN  <<w>> \o AscendingList(S \ {w})

\* C7: a finished build has as many unique nodes and as many edges as the
\* build from the one sorted list of the same set of words, however the
\* words are divided over the input files and in whatever order the files
\* other than the first hold them.
CanonicalMinimization ==
    pc = "finished" =>
        LET one == BuiltFrom(NewDawg, AscendingList(WordsOfFiles))
        IN  /\ num_unique_nodes(dawg) = num_unique_nodes(one)
            /\ num_edges(dawg) = num_edges(one)

\* A finished build of two files that share a word, the second of them not
\* in ascending order
MergedUnsorted ==
    /\ pc = "finished"
    /\ Len(infiles) >= 2
    /\ Len(added) >= 2
    /\ \E k \in 1..(Len(infiles[2].lines) - 1) :
          KeyLess(sortkey(infiles[2].lines[k + 1]),
                  sortkey(infiles[2].lines[k]))
    /\ \E k \in 1..Len(infiles[2].lines) :
          \E m \in 1..Len(infiles[1].lines) :
             infiles[2].lines[k] = infiles[1].lines[m]

-----------------------------------------------------------------------------
(* Properties of the threads *)

\* C8: however the callers of Wordbase.dawg() and of load() of one
\* dictionary interleave, the node table of a dictionary is set up at most
\* once and Wordbase creates one dictionary; every caller that has returned
\* from dawg() holds that one, completely loaded, dictionary; a dictionary
\* that is loaded and whose lock is free holds the complete node table,
\* whatever load calls are made after the load.
LoadOnce ==
    /\ Len(objs) <= 2
    /\ \A i \in DOMAIN objs :
          /\ objs[i].loads <= 1
          /\ (objs[i].lock = 0 /\ objs[i].dd.hasnodes) =>
                objs[i].dd.nodes = LoadedDawg.nodes
    /\ \A t \in DOMAIN threads :
          /\ (threads[t].pc = "idle" /\ threads[t].op = "dawg") =>
                /\ threads[t].got # 0
                /\ threads[t].got = wordbase.dawg
                /\ objs[threads[t].got].loads = 1
                /\ objs[threads[t].got].dd.nodes = LoadedDawg.nodes
          /\ (threads[t].pc = "idle" /\ threads[t].op = "load") =>
                /\ objs[1].loads = 1
                /\ objs[1].dd.nodes = LoadedDawg.nodes

\* All threads have made all their calls, the last of them dawg(), and the
\* shared dictionary was the object of two load calls
LoadedAndShared ==
    /\ \A t \in DOMAIN threads :
          /\ threads[t].pc = "idle"
          /\ threads[t].calls = MaxCalls
          /\ threads[t].op = "dawg"
          /\ threads[t].got = 2
    /\ objs[1].loads = 1
    /\ Len(objs) = 2

\* C9: a lookup made while another thread loads the dictionary returns what
\* the completely loaded dictionary answers and raises no error.
NoPartialDictionary ==
    \A t \in DOMAIN threads :
        (threads[t].pc = "idle" /\ threads[t].op = "valid") =>
            /\ ~threads[t].result.raised
            /\ threads[t].result.value =
                 find(LoadedDawg, threads[t].word).value

-----------------------------------------------------------------------------
(* Properties of the game *)

\* C4: in every state of a game, the move that find_move returns passes
\* check_legality on that state with the result LEGAL (the candidates that
\* the generator collects are none, the list stays empty).
GeneratedMoveLegal ==
    gpc = "checked found" => legal = Move.LEGAL

\* C10: check_legality does not return LEGAL for a move whose tiles, a blank
\* counted as '?', are not all in the rack of the player; it returns
\* TILE_NOT_IN_RACK.
RackCheck ==
    LET played == [i \in 1..Len(move.covers) |-> move.covers[i].tile]
    IN  (/\ gpc = "checked"
         /\ Len(move.covers) \in 1..Rack.MAX_TILES
         /\ ~contains(racks[player + 1], played)) =>
            legal = Move.TILE_NOT_IN_RACK

\* The covers cs lie on distinct squares of one row or one column, leave no
\* gap between them and spell, read along the line, a word of the dictionary
FormWord(cs) ==
    LET n == Len(cs)
        inrow == \A i \in 1..n : cs[i].row = cs[1].row
        incol == \A i \in 1..n : cs[i].col = cs[1].col
        pos(i) == IF inrow THEN cs[i].col ELSE cs[i].row
        first == CHOOSE p \in {pos(i) : i \in 1..n} :
                    \A i \in 1..n : p <= pos(i)
        spelt == [k \in 1..n |->
                    cs[CHOOSE i \in 1..n : pos(i) = first + k - 1].letter]
    IN  /\ n >= 1
        /\ inrow \/ incol
        /\ {pos(i) : i \in 1..n} = first..(first + n - 1)
        /\ spelt \in Range(GameWords)

CrossWordRule ==
    LET cross(c) ==
          IF move.horizontal
          THEN adjacent(board.letters, c.row, c.col, -1, 0) \o <<c.letter>>
               \o adjacent(board.letters, c.row, c.col, 1, 0)
          ELSE adjacent(board.letters, c.row, c.col, 0, -1) \o <<c.letter>>
               \o adjacent(board.letters, c.row, c.col, 0, 1)
    IN  (/\ gpc = "checked"
         /\ board.letters # <<>>
         /\ legal \in {Move.LEGAL, Move.CROSS_WORD_NOT_IN_DICTIONARY}) =>
            (legal = Move.LEGAL <=>
               \A i \in DOMAIN move.covers :
                  Len(cross(move.covers[i])) > 1 =>
                     cross(move.covers[i]) \in Range(GameWords))

\* The score of the move m on the board b when every blank tile counts 0,
\* the blanks that lie on the board included, and no bonus is given: the
\* tiles of the word formed with the letter and word premiums of the new
\* covers, and the cross-words of the covers
BaseScore(b, m) ==
    LET n == Len(m.covers)
        val(t) == IF t = WILD THEN 0 ELSE Alphabet.scores[t]
        ls(c) == Board.letterscore[c.row + 1][c.col + 1]
        ws(c) == Board.wordscore[c.row + 1][c.col + 1]
        sq(k) == IF m.horizontal THEN <<m.row, m.col + k - 1>>
                 ELSE <<m.row + k - 1, m.col>>
        new(k) == {i \in 1..n : <<m.covers[i].row, m.covers[i].col>> = sq(k)}
        \* of the covers for one square the first one counts
        laid(k) == m.covers[CHOOSE i \in new(k) : \A j \in new(k) : i <= j]
        tiles[k \in 0..m.numletters] ==
          IF k = 0 THEN 0
          ELSE tiles[k - 1]
               + IF new(k) # {} THEN val(laid(k).tile) * ls(laid(k))
                 ELSE val(b.tiles[sq(k)])
        premium[k \in 0..m.numletters] ==
          IF k = 0 THEN 1
          ELSE premium[k - 1] * IF new(k) # {} THEN ws(laid(k)) ELSE 1
        across(c) ==
          IF m.horizontal
          THEN adjacent(b.tiles, c.row, c.col, -1, 0)
               \o adjacent(b.tiles, c.row, c.col, 1, 0)
          ELSE adjacent(b.tiles, c.row, c.col, 0, -1)
               \o adjacent(b.tiles, c.row, c.col, 0, 1)
        sum(s) == LET T[k \in 0..Len(s)] ==
                        IF k = 0 THEN 0 ELSE T[k - 1] + val(s[k])
                  IN  T[Len(s)]
        crosswords[i \in 0..n] ==
          IF i = 0 THEN 0
          ELSE crosswords[i - 1]
               + IF across(m.covers[i]) = <<>> THEN 0
                 ELSE (val(m.covers[i].tile) * ls(m.covers[i])
                       + sum(across(m.covers[i]))) * ws(m.covers[i])
    IN  tiles[m.numletters] * premium[m.numletters] + crosswords[n]

\* C13: a blank tile adds 0 points to every word that it is part of, whether
\* the move lays it down, on whatever square, or it lay on the board already,
\* in the word formed or in a cross-word: the score that apply_move adds is
\* the score with every blank counted as 0.
BlanksScoreZero ==
    [][(gpc \in {"checked", "checked found"} /\ gpc' = "play"
        /\ legal = Move.LEGAL) =>
          scores'[player + 1] = scores[player + 1] + BaseScore(board, move)
                                + IF Len(move.covers) = 7 THEN 50 ELSE 0]_vars

\* C14: the score of a move of exactly seven covers is the score that the
\* move gets without the bonus plus exactly 50, and a move of fewer than
\* seven covers gets no bonus.
BingoBonus ==
    [][(gpc = "checked" /\ gpc' = "play" /\ legal = Move.LEGAL) =>
          scores'[player + 1] - scores[player + 1] =
             IF Len(move.covers) = 7
             THEN BaseScore(board, move) + 50
             ELSE BaseScore(board, move)]_vars

\* Seven tiles have been laid in one move and the bonus is in the score
BingoPlayed ==
    /\ gpc = "play"
    /\ board.numtiles = 7
    /\ scores[1] >= 50
    /\ Len(racks[1]) = 0

\* C15: for every legal move the score computed after check_legality is the
\* same for every order in which the same covers were added to the move:
\* in whatever order the covers of a legal move are added, the move is legal
\* and scores the same.
ScoreOrderFree ==
    (gpc = "checked" /\ legal = Move.LEGAL) =>
        \A p \in {q \in [DOMAIN move.covers -> DOMAIN move.covers] :
                    \A i, j \in DOMAIN q : q[i] = q[j] => i = j} :
           LET inorder == [i \in DOMAIN move.covers |-> move.covers[p[i]]]
               other == check_legality(board, racks[player + 1],
                                       NewMove(inorder))
           IN  /\ other.code = Move.LEGAL
               /\ score(board, other.move) = score(board, move)

\* C16: the autoplayer always returns a move: whenever find_move has
\* returned, its result is a move (the best candidate, an exchange of the
\* rack or a pass) and never "no move".
AutoplayerReturnsMove ==
    gpc = "found" => ~move.none

\* C17: after the axes are initialised from a board, every square marked as
\* anchor is empty, is not closed and has an adjacent covered square; and on
\* an empty board the centre square is the one anchor of the central axis.
AnchorInvariant ==
    gpc = "found" =>
       /\ \A a \in anchors :
             LET row == IF a[1] THEN a[2] ELSE a[3]
                 col == IF a[1] THEN a[3] ELSE a[2]
             IN  /\ ~is_covered(board, row, col)
                 /\ <<row, col>> \notin board.closed
                 /\ has_adjacent(board, row, col)
       /\ is_empty(board) =>
             {a[3] : a \in {c \in anchors : c[1] /\ c[2] = Board.SIZE \div 2}}
                = {Board.SIZE \div 2}

\* C18: one '?' in the rack stands for exactly one letter of any kind:
\* find_permutations("?", 1) is exactly the set of the one-letter words of
\* the dictionary, and find_permutations("s?", 2), for a letter s, is exactly
\* the set of the words of the dictionary of at most two letters in which s
\* occurs.
WildcardExpansion ==
    result.op = "perm" =>
        /\ ~result.raised
        /\ NoRepeats(result.value)
        /\ query = <<<<WILD>>, 1>> =>
              Range(result.value) = {w \in Range(added) : Len(w) = 1}
        /\ \A s \in Letters :
              query = <<<<s, WILD>>, 2>> =>
                 Range(result.value) =
                    {w \in Range(added) : Len(w) <= 2 /\ Has(w, s)}

\* The wildcard in a dictionary that holds at least one word: with the rack
\* "s?" and the minimum length 2 the words found are the words of two
\* letters in which s occurs
WildcardOfWords ==
    (result.op = "perm" /\ added # <<>>) =>
        /\ ~result.raised
        /\ NoRepeats(result.value)
        /\ query = <<<<WILD>>, 1>> =>
              Range(result.value) = {w \in Range(added) : Len(w) = 1}
        /\ \A s \in Letters :
              query = <<<<s, WILD>>, 2>> =>
                 Range(result.value) =
                    {w \in Range(added) : Len(w) = 2 /\ Has(w, s)}

\* How often the tile t occurs in the string s
TileCount(s, t) == Cardinality({i \in 1..Len(s) : s[i] = t})

\* C19: Rack.replenish(bag) ends with min(7, tiles in the rack before +
\* tiles in the bag before) tiles in the rack; it only moves tiles from the
\* bag to the rack, so that rack and bag together hold the same tiles as
\* before; and with an empty bag it does nothing and leaves the rack short.
ReplenishFills ==
    [][(gpc = "rack" /\ gpc' = "replenished") =>
          /\ Len(racks'[1]) =
                IF Len(racks[1]) + Len(bag) < 7 THEN Len(racks[1]) + Len(bag)
                ELSE 7
          /\ \A t \in Letters \cup {WILD} :
                /\ TileCount(racks'[1], t) + TileCount(bag', t) =
                      TileCount(racks[1], t) + TileCount(bag, t)
                /\ TileCount(racks'[1], t) >= TileCount(racks[1], t)
          /\ bag = <<>> => (racks' = racks /\ bag' = bag)]_vars

\* The rack was replenished from a bag that ran out: the rack is short
RackLeftShort ==
    /\ gpc = "replenished"
    /\ bag = <<>>
    /\ racks[1] # <<>>
    /\ Len(racks[1]) < 7

\* C20: add_word rejects with an error exactly the words of more than 48
\* letters and accepts every word of 1 to 48 letters; a rejected word leaves
\* the builder as it was; and the lines of an input file that are too long
\* are dropped without an error before they reach add_word, so that the
\* merge hands add_word the lines of 1 to 48 letters and no others.
WordLengthLimit ==
    [][/\ (pc = "build" /\ added' # added) =>
             /\ result'.raised <=> Len(query') > 48
             /\ result'.raised => dawg' = dawg
             /\ ~result'.raised => dawg' # dawg
       /\ (pc = "merge" /\ pc' = "finished") =>
             Range(added) =
                {w \in UNION {Range(infiles[i].lines) : i \in DOMAIN infiles} :
                   Len(w) \in 1..48}]_vars

\* What add_word and the merge do with the lengths that they refuse: no word
\* of MAXLEN letters or more gets into the builder, by either way
LimitBelowMaxlen ==
    [][/\ (pc = "build" /\ added' # added) =>
             /\ result'.raised <=> Len(query') >= MAXLEN
             /\ result'.raised => dawg' = dawg
       /\ (pc = "merge" /\ pc' = "finished") =>
             Range(added) =
                {w \in UNION {Range(infiles[i].lines) : i \in DOMAIN infiles} :
                   Len(w) \in 1..(MAXLEN - 1)}]_vars

-----------------------------------------------------------------------------
(* The navigation taken callback by callback *)

\* The walk in steps ends with the navigator that navigate gives as a whole
StepwiseNavigation ==
    pc = "done" => _nav = navigate(dict, query).nav


\* C21: Edge push/pop protocol.  After a push_edge that returned true, the
\* next callback made at the depth of that node or above it is the pop_edge
\* of that node, so every entered edge gets its one pop_edge when the walk
\* of the edge and of all below it is over and before a sibling is offered,
\* properly nested; every pop_edge belongs to such a push_edge, so a
\* push_edge that returned false gets none; and after a pop_edge that
\* returned false no callback is made at the depth of that node any more
\* until the walk has left the node.
NextAtOrAbove(x) ==
    LET later == {y \in (x + 1)..Len(calls) : calls[y].depth <= calls[x].depth}
    IN  IF later = {} THEN 0
        ELSE CHOOSE y \in later : \A z \in later : y <= z

Entered(x) == calls[x].op = "push_edge" /\ calls[x].ret

EdgeProtocol ==
    \A x \in 1..Len(calls) :
      /\ Entered(x) =>
           IF NextAtOrAbove(x) = 0
           THEN pc = "walk" /\ Len(frames) >= calls[x].depth
           ELSE /\ calls[NextAtOrAbove(x)].op = "pop_edge"
                /\ calls[NextAtOrAbove(x)].depth = calls[x].depth
      /\ calls[x].op = "pop_edge" =>
           /\ \E w \in 1..(x - 1) : Entered(w) /\ NextAtOrAbove(w) = x
           /\ ~calls[x].ret /\ NextAtOrAbove(x) # 0 =>
                calls[NextAtOrAbove(x)].depth < calls[x].depth

\* A finished walk that entered an edge of the root and an edge of a node
\* below it, was refused an edge, and had a pop_edge return false and
\* another return true
EdgesEnteredAndLeft ==
    /\ pc = "done"
    /\ \E x, y \in 1..Len(calls) :
         /\ Entered(x) /\ Entered(y) /\ calls[x].depth < calls[y].depth
    /\ \E x \in 1..Len(calls) : calls[x].op = "push_edge" /\ ~calls[x].ret
    /\ \E x, y \in 1..Len(calls) :
         /\ calls[x].op = "pop_edge" /\ calls[y].op = "pop_edge"
         /\ calls[x].ret /\ ~calls[y].ret


\* C22: done() exactly once and last.  done() is never followed by another
\* callback, every navigate that has ended has called it exactly once, also
\* on a dictionary that is not loaded, and a navigator that is not accepting
\* at the start is offered no edge.
DoneCalls == {x \in 1..Len(calls) : calls[x].op = "done"}

DoneOnceAndLast ==
    /\ \A x \in DoneCalls : x = Len(calls)
    /\ pc \in {"done", "raised"} => Cardinality(DoneCalls) = 1
    /\ calls # <<>> /\ calls[1].op = "accepting" /\ ~calls[1].ret =>
         \A x \in 1..Len(calls) : calls[x].op # "push_edge"

\* The same for every navigate that got hold of the root of the graph
DoneOnceWithRoot ==
    /\ \A x \in DoneCalls : x = Len(calls)
    /\ pc = "done" => Cardinality(DoneCalls) = 1
    /\ pc = "done" /\ ~dict.hasnodes => Len(calls) = 1
    /\ calls # <<>> /\ calls[1].op = "accepting" /\ ~calls[1].ret =>
         \A x \in 1..Len(calls) : calls[x].op # "push_edge"


\* C23: Sibling order.  In a navigation of a DAWG that the builder wrote and
\* the loader loaded, two edges of one visit of a node are offered to
\* push_edge in ascending collation order of their first characters.
SameVisit(x, y) ==
    /\ x < y
    /\ calls[x].op = "push_edge" /\ calls[y].op = "push_edge"
    /\ calls[x].depth = calls[y].depth
    /\ \A z \in (x + 1)..(y - 1) : calls[z].depth >= calls[x].depth

ValidWords(lines) ==
    {lines[i] : i \in {k \in 1..Len(lines) :
                         lines[k] # <<>> /\ Len(lines[k]) < MAXLEN}}

MergeProtocol ==
    [][pc = "merge" =>
         /\ \A i \in 1..(Len(added') - 1) :
               KeyLess(sortkey(added'[i]), sortkey(added'[i + 1]))
         /\ warnings' # warnings =>
               /\ added' = added /\ dawg' = dawg /\ lastkey' = lastkey
               /\ pc' = "merge"
         /\ pc' = "finished" /\ NonDecreasing(infiles[1].lines) =>
               /\ warnings = <<>>
               /\ {added[i] : i \in 1..Len(added)} =
                    (UNION {ValidWords(infiles[i].lines) :
                              i \in 1..Len(infiles)} \ word_filter)
                      \ UNION {ValidWords(removal[i].lines) :
                                 i \in 1..Len(removal)}]_vars

\* A finished build of two or more files with a removal list that holds one
\* of their words: a word was added and a word was reported as out of order
MergedWithRemovals ==
    /\ pc = "finished" /\ Len(infiles) >= 2
    /\ added # <<>> /\ warnings # <<>>
    /\ \E i \in 1..Len(infiles) :
         ValidWords(infiles[i].lines) \cap ValidWords(removal[1].lines) # {}

\* C25 (cross-checks are perpendicular): when find_move sets up the axes,
\* every open square of an axis with letters beside it across the axis
\* (above or below it for a row, left or right of it for a column) is
\* allowed exactly the letters L for which before + L + after is a word of
\* the dictionary, and when there is no such letter the square is closed and
\* is not an anchor of the axis.
CrossChecked(rows) ==
    \A h \in rows : \A index, ix \in 0..(Board.SIZE - 1) :
       LET row == IF h THEN index ELSE ix
           col == IF h THEN ix ELSE index
           xd == IF h THEN 1 ELSE 0
           yd == IF h THEN 0 ELSE 1
           seen == IF h THEN board ELSE board'
           before == adjacent(board.letters, row, col, -xd, -yd)
           after == adjacent(board.letters, row, col, xd, yd)
           fits == {L \in {"a", "b"} :
                      word_db_contains(before \o <<L>> \o after)}
       IN  (/\ ~is_covered(board, row, col)
            /\ <<row, col>> \notin board.closed
            /\ before # <<>> \/ after # <<>>)
           => IF fits = {}
              THEN /\ <<row, col>> \in board'.closed
                   /\ <<h, index, ix>> \notin anchors'
              ELSE init_crosscheck(seen, row, col).allowed = <<fits>>

CrossChecksPerpendicular ==
    [][gpc = "play" /\ gpc' = "found" => CrossChecked(BOOLEAN)]_vars

\* The same for the row axes alone
RowCrossChecks ==
    [][gpc = "play" /\ gpc' = "found" => CrossChecked({TRUE})]_vars

\* C26 (deterministic branching): in the graph that finish leaves and in the
\* dictionary loaded from its text, the prefixes of the edges of every node,
\* the root included, begin with letters that differ from each other, so
\* that at most one edge of a node can be entered for a letter; and find,
\* which stops after the first edge it entered, finds every word of a list
\* that is not empty and no other word.
DistinctFirsts(es) ==
    \A i, j \in 1..Len(es) :
       (es[i].p # <<>> /\ es[j].p # <<>> /\ es[i].p[1] = es[j].p[1]) => i = j

DeterministicBranching ==
    /\ pc # "build" =>
          /\ DistinctFirsts(dawg.root)
          /\ \A k \in DOMAIN dawg.nodes : DistinctFirsts(dawg.nodes[k].edges)
    /\ \A n \in DOMAIN dict.nodes : DistinctFirsts(dict.nodes[n].edges)
    /\ (pc = "answered" /\ result.op = "find" /\ added # <<>>) =>
          (result.value <=> \E i \in DOMAIN added : added[i] = query)

\* A word was found behind the last of several edges of the root, in a
\* graph that has another node with several edges
BranchTaken ==
    /\ pc = "answered"
    /\ result.op = "find"
    /\ result.value
    /\ Len(dict.nodes[0].edges) > 1
    /\ query[1] = dict.nodes[0].edges[Len(dict.nodes[0].edges)].p[1]
    /\ \E n \in DOMAIN dict.nodes : n # 0 /\ Len(dict.nodes[n].edges) > 1

\* C27 (tile conservation): from the creation of the State on, when
\* apply_move is called with moves whose tiles are in the rack of the player
\* who moves, the tiles in the bag, in the two racks and on the board are
\* together the tiles of the full bag, and the letter count and the tile
\* count of the board are both the number of covered squares.
Conserved ==
    /\ \A t \in {"a", "b", WILD} :
          Count(bag, t) + Count(racks[1], t) + Count(racks[2], t)
            + Cardinality({sq \in DOMAIN board.tiles : board.tiles[sq] = t})
          = Count(full_bag, t)
    /\ board.numletters = Cardinality(DOMAIN board.letters)
    /\ board.numtiles = Cardinality(DOMAIN board.letters)

TilesInRack ==
    contains(racks[player + 1],
             [i \in DOMAIN move.covers |-> move.covers[i].tile])

TileConservation ==
    /\ Conserved
    /\ [][(/\ gpc \in {"checked", "checked found"}
           /\ gpc' = "play"
           /\ legal = Move.LEGAL
           /\ TilesInRack
           /\ Conserved) => Conserved']_vars

\* C28 (navigator state is restored on backtrack): when done() is called,
\* and after it, a PermutationNavigator holds the rack it was constructed
\* with and an empty stack, and a MatchNavigator is at the position, the
\* pattern character and the wildcard flag it was constructed with, with an
\* empty stack, whatever the graph and the rack or pattern are.
StateRestored ==
    pc \in {"finish", "done"} =>
       /\ _nav.kind = "perm" =>
             /\ _nav.rack = query.rack
             /\ _nav.stack = <<>>
       /\ _nav.kind = "match" =>
             /\ _nav.index = query.index
             /\ _nav.chmatch = query.chmatch
             /\ _nav.wildcard = query.wildcard
             /\ _nav.stack = <<>>

\* A navigation is over in which a rack with a blank tile gave a word of
\* two letters, so that tiles were taken from the rack two edges deep
RackRestored ==
    /\ pc = "done"
    /\ _nav.kind = "perm"
    /\ Has(query.rack, WILD)
    /\ \E i \in DOMAIN _nav.result : Len(_nav.result[i]) = 2
    /\ \E i \in DOMAIN calls : calls[i].op = "pop_edge" /\ calls[i].depth > 1

\* C29 (termination): navigate with a FindNavigator, a MatchNavigator or a
\* PermutationNavigator on a loaded graph, one whose lines refer to each
\* other in a cycle included, comes to an end by reaching done().
NavigationTerminates == (pc \in {"go", "raised"}) ~> (pc = "done")

\* The same for the graphs that have a root
NavigationWithRootTerminates == (pc = "go") ~> (pc = "done")

-----------------------------------------------------------------------------
(* DawgDictionary.load of files that fail (dawgdictionary.py) *)

\* Files that the builder wrote
GoodFiles ==
    {write_text(BuiltFrom(NewDawg, ws)) :
       ws \in {<<<<"a">>>>, <<<<"b">>>>, <<<<"a", "a">>, <<"a", "b">>>>,
               <<<<"a">>, <<"a", "b">>, <<"b">>>>}}

\* Files with a malformed line: an edge without a node number, in the
\* first line or in the second, and a node number that is not a number
MalformedFiles ==
    {<<<<"a", ":", "0", "_", "b", "\n">>>>,
     <<<<"a", ":", "2", "\n">>, <<"b", "\n">>>>,
     <<<<"b", ":", "x", "\n">>>>}

\* A dictionary that was constructed and not loaded
InitFailedLoad ==
    /\ pc = "fresh"
    /\ dict = NewDictionary
    /\ dawg = NewDawg
    /\ added = <<>>
    /\ text = <<>>
    /\ query = <<>>
    /\ result = NoResult
    /\ IdleMerge
    /\ IdleThreads
    /\ IdleGame
    /\ IdleNav

\* load(fname) of a file that can be read: it raises at a malformed line
\* and returns otherwise; text keeps the lines of the file
LoadFile(lines) ==
    /\ pc \in {"fresh", "failed"}
    /\ dict' = load([dict EXCEPT !.raised = FALSE], lines)
    /\ text' = lines
    /\ pc' = IF dict'.raised THEN "failed"
             ELSE IF pc = "fresh" THEN "loaded" ELSE "reloaded"
    /\ query' = <<>>
    /\ result' = NoResult
    /\ UNCHANGED <<dawg, added, mergeVars, threadVars, gameVars, navVars>>

\* load(fname) of a file that cannot be opened
LoadUnreadable ==
    /\ pc \in {"fresh", "failed"}
    /\ dict' = load_unreadable([dict EXCEPT !.raised = FALSE])
    /\ text' = <<>>
    /\ pc' = IF dict'.raised THEN "failed" ELSE "reloaded"
    /\ query' = <<>>
    /\ result' = NoResult
    /\ UNCHANGED <<dawg, added, mergeVars, threadVars, gameVars, navVars>>

\* find(word) after a load was made
FindAfterLoad(w) ==
    /\ pc \in {"failed", "loaded", "reloaded"}
    /\ query' = w
    /\ result' = [op |-> "find"] @@ find(dict, w)
    /\ UNCHANGED <<pc, dict, text, dawg, added, mergeVars, threadVars,
                   gameVars, navVars>>

NextFailedLoad ==
    \/ \E lines \in GoodFiles \cup MalformedFiles : LoadFile(lines)
    \/ LoadUnreadable
    \/ \E w \in Vocabulary : FindAfterLoad(w)

SpecFailedLoad == InitFailedLoad /\ [][NextFailedLoad]_vars

\* C30 (a failed load leaves no half-loaded dictionary): when load has
\* failed, for a file that cannot be read or has a malformed line, the
\* dictionary is in its not-loaded state and a lookup finds nothing and
\* raises nothing; and when a good file is loaded after failed loads, the
\* dictionary holds the graph of that file.
FailedLoadNotLoaded ==
    /\ pc = "failed" => ~dict.hasnodes
    /\ (pc = "failed" /\ result.op = "find") =>
          (~result.raised /\ ~result.value)
    /\ (pc = "reloaded" /\ text \in GoodFiles) =>
          dict = load(NewDictionary, text)

=============================================================================
